---- MODULE Spec2Model ----
(***************************************************************************)
(* State-machine model of the SecurePay trust-flow SDK:                    *)
(*   DeviceFingerprint  (device identity),                                 *)
(*   QRCodeManager      (link payload issue / parse),                      *)
(*   TrustedDeviceManager (trust store, verification code, risk engine),   *)
(*   SecurePaySDK       (facade).                                          *)
(* localStorage keys are the variables trusted_devices,                    *)
(* current_device_registered, trusted_device_id and verification_code.     *)
(* Strings that are serialised (the link payload) are sequences of         *)
(* character codes; times are milliseconds.                                *)
(***************************************************************************)
EXTENDS Integers, Sequences, FiniteSets, TLC

(* ---------------------------- bounds ---------------------------------- *)
\* Device identifiers that exist in the world (this device and foreign ones).
MaxDeviceId == 2
\* Number of clock advances explored.
MaxTicks == 2
\* Number of link payloads that may be in flight.
MaxPayloads == 1


(* ------------------------ program constants --------------------------- *)
HIGH_VALUE_THRESHOLD == 10000
\* 5 * 60 * 1000 ms, the payload lifetime added to Date.now()
QR_VALIDITY_MS == 5 * 60 * 1000

(* ------------------------------ strings ------------------------------- *)
\* A JavaScript string is the sequence of its character codes.
STR_Android == <<65, 110, 100, 114, 111, 105, 100>>
STR_iOS == <<105, 79, 83>>
STR_Web == <<87, 101, 98>>
STR_WebBrowser == <<87, 101, 98, 32, 66, 114, 111, 119, 115, 101, 114>>
\* the suffix of the template literal `${platform} Device`
STR_SpaceDevice == <<32, 68, 101, 118, 105, 99, 101>>
STR_MyPhone == <<77, 121, 32, 80, 104, 111, 110, 101>>
STR_Phone10 == <<53, 53, 53, 49, 50, 51, 52, 53, 54, 55>>
\* a formatted number with seven digits: 555-1234
STR_PhoneShort == <<53, 53, 53, 45, 49, 50, 51, 52>>
STR_Empty == << >>
STR_true == <<116, 114, 117, 101>>
STR_none == <<110, 111, 110, 101>>
STR_face == <<102, 97, 99, 101>>
STR_fingerprint == <<102, 105, 110, 103, 101, 114, 112, 114, 105, 110, 116>>
STR_img == <<105, 109, 103>>
STR_tok == <<116, 107>>
STR_undefined == <<117, 110, 100, 101, 102, 105, 110, 101, 100>>

\* values that are not strings: a missing key / missing item, and JSON null
Undefined == << -1 >>
Null == << -2 >>

Min(S) == CHOOSE x \in S : \A y \in S : x <= y
Max(S) == CHOOSE x \in S : \A y \in S : x >= y

\* o[k], or undefined when the object has no such key
Get(o, k) == IF k \in DOMAIN o THEN o[k] ELSE Undefined

(* --------------------- Date.toISOString / new Date -------------------- *)
CH_T == 84
CH_Z == 90
CH_COLON == 58
CH_DOT == 46
CH_0 == 48

Digit(n) == CH_0 + n
D2(n) == << Digit(n \div 10), Digit(n % 10) >>
D3(n) == << Digit(n \div 100), Digit((n \div 10) % 10), Digit(n % 10) >>

\* time value of an Invalid Date; every comparison with it is false
NaNTime == -1

\* Date.prototype.toISOString, the time-of-day part: THH:MM:SS.mmmZ
toISOString(t) ==
  << CH_T >> \o D2(t \div 3600000) \o << CH_COLON >>
    \o D2((t \div 60000) % 60) \o << CH_COLON >>
    \o D2((t \div 1000) % 60) \o << CH_DOT >>
    \o D3(t % 1000) \o << CH_Z >>

IsDigit(c) == c >= CH_0 /\ c <= CH_0 + 9
Num2(s, i) == (s[i] - CH_0) * 10 + (s[i + 1] - CH_0)
Num3(s, i) == (s[i] - CH_0) * 100 + (s[i + 1] - CH_0) * 10 + (s[i + 2] - CH_0)

\* new Date(string).getTime(): NaN unless the string is a well-formed time
DateParse(s) ==
  IF /\ Len(s) = 14
     /\ s[1] = CH_T /\ s[4] = CH_COLON /\ s[7] = CH_COLON
     /\ s[10] = CH_DOT /\ s[14] = CH_Z
     /\ \A i \in {2, 3, 5, 6, 8, 9, 11, 12, 13} : IsDigit(s[i])
     /\ Num2(s, 2) < 24 /\ Num2(s, 5) < 60 /\ Num2(s, 8) < 60
  THEN Num2(s, 2) * 3600000 + Num2(s, 5) * 60000 + Num2(s, 8) * 1000 + Num3(s, 11)
  ELSE NaNTime

\* a < b on time values, false when either side is NaN
DateLess(a, b) == a # NaNTime /\ b # NaNTime /\ a < b

(* ------------------------ JSON.stringify / parse ----------------------- *)
CH_LB == 123
CH_RB == 125
CH_QUOTE == 34
CH_COMMA == 44

\* Property names of the link payload, one character each on the wire:
\* d = deviceInfo, i = deviceId, p = platform, n = deviceName,
\* t = timestamp, s = sessionToken, e = expiresAt.
KeyChar(k) ==
  CASE k = "deviceInfo" -> 100
    [] k = "deviceId" -> 105
    [] k = "platform" -> 112
    [] k = "deviceName" -> 110
    [] k = "timestamp" -> 116
    [] k = "sessionToken" -> 115
    [] k = "expiresAt" -> 101

InfoKeys == {"deviceId", "platform", "deviceName", "timestamp"}
TopStringKeys == {"sessionToken", "expiresAt"}

\* "key":"value"
JSONmember(k, v) ==
  << CH_QUOTE, KeyChar(k), CH_QUOTE, CH_COLON, CH_QUOTE >> \o v \o << CH_QUOTE >>

\* the members of an object in the given key order, comma separated;
\* a key the object does not have is omitted
RECURSIVE JSONmembers(_, _)
JSONmembers(o, keys) ==
  IF keys = << >> THEN << >>
  ELSE LET k == Head(keys)
           rest == JSONmembers(o, Tail(keys))
       IN IF k \notin DOMAIN o THEN rest
          ELSE IF rest = << >> THEN JSONmember(k, o[k])
          ELSE JSONmember(k, o[k]) \o << CH_COMMA >> \o rest

InfoKeyOrder == << "deviceId", "platform", "deviceName", "timestamp" >>
TopKeyOrder == << "sessionToken", "expiresAt" >>

\* JSON.stringify of a QRCodeData-shaped object q = [info, hasInfo, top]:
\* {"d":{...},"s":"...","e":"..."}
JSONstringify(q) ==
  LET info == IF q.hasInfo
              THEN << CH_QUOTE, KeyChar("deviceInfo"), CH_QUOTE, CH_COLON, CH_LB >>
                     \o JSONmembers(q.info, InfoKeyOrder) \o << CH_RB >>
              ELSE << >>
      top == JSONmembers(q.top, TopKeyOrder)
  IN << CH_LB >> \o info
       \o (IF info # << >> /\ top # << >> THEN << CH_COMMA >> ELSE << >>)
       \o top \o << CH_RB >>

ParseFail == [ok |-> FALSE]

\* a string literal whose opening quote is at i - 1
JSONstringAt(s, i) ==
  LET ends == {j \in i..Len(s) : s[j] = CH_QUOTE}
  IN IF ends = {} THEN ParseFail
     ELSE [ok |-> TRUE, val |-> SubSeq(s, i, Min(ends) - 1), next |-> Min(ends) + 1]

\* the name of a one-character key among the given names, or "" if unknown
KeyNamed(c, names) ==
  IF \E k \in names : KeyChar(k) = c
  THEN CHOOSE k \in names : KeyChar(k) = c
  ELSE ""

\* members of an object of string values, from position i (just after the
\* brace or a comma) up to and including the closing brace
RECURSIVE JSONflatObject(_, _, _, _)
JSONflatObject(s, i, names, acc) ==
  IF i + 4 > Len(s) THEN ParseFail
  ELSE IF ~ (s[i] = CH_QUOTE /\ s[i + 2] = CH_QUOTE /\ s[i + 3] = CH_COLON
             /\ s[i + 4] = CH_QUOTE) THEN ParseFail
  ELSE LET str == JSONstringAt(s, i + 5)
           k == KeyNamed(s[i + 1], names)
       IN IF ~ str.ok THEN ParseFail
          ELSE LET acc2 == IF k = "" THEN acc ELSE (k :> str.val) @@ acc
                   j == str.next
               IN IF j > Len(s) THEN ParseFail
                  ELSE IF s[j] = CH_RB THEN [ok |-> TRUE, obj |-> acc2, next |-> j + 1]
                  ELSE IF s[j] = CH_COMMA THEN JSONflatObject(s, j + 1, names, acc2)
                  ELSE ParseFail

EmptyObject == [k \in {} |-> << >>]

\* an object of string values whose opening brace is at i - 1
JSONobjectAt(s, i, names) ==
  IF i <= Len(s) /\ s[i] = CH_RB
  THEN [ok |-> TRUE, obj |-> EmptyObject, next |-> i + 1]
  ELSE JSONflatObject(s, i, names, EmptyObject)

\* JSON.parse of a link payload text: [ok, hasInfo, info, top]; ok = FALSE
\* stands for the SyntaxError it throws
JSONparse(s) ==
  IF Len(s) < 2 \/ s[1] # CH_LB THEN ParseFail
  ELSE IF s[2] = CH_RB
    THEN IF Len(s) = 2
         THEN [ok |-> TRUE, hasInfo |-> FALSE, info |-> EmptyObject, top |-> EmptyObject]
         ELSE ParseFail
  ELSE IF Len(s) >= 6 /\ s[2] = CH_QUOTE /\ s[3] = KeyChar("deviceInfo")
          /\ s[4] = CH_QUOTE /\ s[5] = CH_COLON /\ s[6] = CH_LB
    THEN LET inner == JSONobjectAt(s, 7, InfoKeys)
         IN IF ~ inner.ok \/ inner.next > Len(s) THEN ParseFail
            ELSE IF s[inner.next] = CH_RB
              THEN IF inner.next = Len(s)
                   THEN [ok |-> TRUE, hasInfo |-> TRUE, info |-> inner.obj,
                         top |-> EmptyObject]
                   ELSE ParseFail
            ELSE IF s[inner.next] = CH_COMMA
              THEN LET rest == JSONflatObject(s, inner.next + 1, TopStringKeys, EmptyObject)
                   IN IF rest.ok /\ rest.next = Len(s) + 1
                      THEN [ok |-> TRUE, hasInfo |-> TRUE, info |-> inner.obj,
                            top |-> rest.obj]
                      ELSE ParseFail
            ELSE ParseFail
  ELSE LET rest == JSONflatObject(s, 2, TopStringKeys, EmptyObject)
       IN IF rest.ok /\ rest.next = Len(s) + 1
          THEN [ok |-> TRUE, hasInfo |-> FALSE, info |-> EmptyObject, top |-> rest.obj]
          ELSE ParseFail

(* ------------------------------ btoa / atob ---------------------------- *)
\* A base64 text is the sequence of its alphabet indices 0..63; 64 is '='.
B64_PAD == 64

\* btoa: three bytes become four indices, the tail is padded
RECURSIVE btoa(_)
btoa(b) ==
  IF Len(b) = 0 THEN << >>
  ELSE IF Len(b) = 1
    THEN << b[1] \div 4, (b[1] % 4) * 16, B64_PAD, B64_PAD >>
  ELSE IF Len(b) = 2
    THEN << b[1] \div 4, (b[1] % 4) * 16 + b[2] \div 16, (b[2] % 16) * 4, B64_PAD >>
  ELSE << b[1] \div 4, (b[1] % 4) * 16 + b[2] \div 16,
          (b[2] % 16) * 4 + b[3] \div 64, b[3] % 64 >>
         \o btoa(SubSeq(b, 4, Len(b)))

\* the indices of a base64 text with its padding removed
StripPad(t) ==
  IF Len(t) % 4 = 0 /\ Len(t) >= 2 /\ t[Len(t)] = B64_PAD /\ t[Len(t) - 1] = B64_PAD
  THEN SubSeq(t, 1, Len(t) - 2)
  ELSE IF Len(t) % 4 = 0 /\ Len(t) >= 1 /\ t[Len(t)] = B64_PAD
  THEN SubSeq(t, 1, Len(t) - 1)
  ELSE t

\* mutant: a final group shorter than four characters is dropped
RECURSIVE atobGroups_noTail(_)
atobGroups_noTail(t) ==
  IF Len(t) <= 3 THEN << >>
  ELSE << t[1] * 4 + t[2] \div 16, (t[2] % 16) * 16 + t[3] \div 4,
          (t[3] % 4) * 64 + t[4] >>
         \o atobGroups_noTail(SubSeq(t, 5, Len(t)))

RECURSIVE atobGroups(_)
atobGroups(t) ==
  IF Len(t) <= 1 THEN << >>
  ELSE IF Len(t) = 2 THEN << t[1] * 4 + t[2] \div 16 >>
  ELSE IF Len(t) = 3
    THEN << t[1] * 4 + t[2] \div 16, (t[2] % 16) * 16 + t[3] \div 4 >>
  ELSE << t[1] * 4 + t[2] \div 16, (t[2] % 16) * 16 + t[3] \div 4,
          (t[3] % 4) * 64 + t[4] >>
         \o atobGroups(SubSeq(t, 5, Len(t)))

\* atob: [ok, val]; ok = FALSE stands for the InvalidCharacterError it throws
atob(t) ==
  LET u == StripPad(t)
  IN IF Len(u) % 4 = 1 \/ \E i \in 1..Len(u) : u[i] < 0 \/ u[i] > 63
     THEN [ok |-> FALSE]
     ELSE [ok |-> TRUE, val |-> atobGroups(u)]

(* -------------------------- DeviceFingerprint -------------------------- *)
\* navigator.userAgent, reduced to the three classes detectPlatform tells apart
UserAgents == {"android-ua", "iphone-ua", "desktop-ua"}

detectPlatform(ua) ==
  IF ua = "android-ua" THEN STR_Android
  ELSE IF ua = "iphone-ua" THEN STR_iOS
  ELSE STR_Web

getDeviceName(ua) ==
  IF detectPlatform(ua) = STR_Web THEN STR_WebBrowser
  ELSE detectPlatform(ua) \o STR_SpaceDevice

\* the identifiers uuidv4() can return, one character each
DeviceIds == {<< Digit(n) >> : n \in 1..MaxDeviceId}

(* ------------------------------- state --------------------------------- *)
VARIABLES
  trusted_devices,            \* localStorage['trusted_devices']: [kind, list]
  current_device_registered,  \* localStorage['current_device_registered']
  trusted_device_id,          \* localStorage['trusted_device_id']
  verification_code,          \* localStorage['verification_code']
  fp_deviceId,                \* DeviceFingerprint.deviceId (static, per page load)
  userAgent,                  \* navigator.userAgent
  now,                        \* the clock, milliseconds
  ticks,                      \* clock advances so far
  qrIssued,                   \* link payloads issued so far: [payload, at, info]
  codeLog,                    \* history: the code issued last, the number of
                              \* verifyCode calls since (counted up to two),
                              \* and the unchecked code it replaced, if any
  last,                       \* the call that produced this state and its result
  sim,                        \* state of the TransactionSimulator component
  inflight                    \* per SDK instance sharing the store: the
                              \* addTrustedDevice execution it is in

vars == << trusted_devices, current_device_registered, trusted_device_id,
           verification_code, fp_deviceId, userAgent, now, ticks, qrIssued,
           codeLog, last, sim, inflight >>

storage == << trusted_devices, current_device_registered, trusted_device_id,
              verification_code >>

\* the SDK instances (tabs of one browser) that share localStorage
Instances == {1, 2}

\* an instance that is not inside addTrustedDevice
Idle == [pc |-> "idle"]

\* null in a hook that otherwise holds a transaction or a verification result
NoObject == [null |-> TRUE]

\* the component before it is mounted; the fields are its useState hooks,
\* and codeSince records whether a verification code has been requested
\* since the current transaction was submitted
SimInit ==
  [mounted |-> FALSE, currentDevice |-> Null, currentTransaction |-> NoObject,
   verificationResult |-> NoObject, isCallVerified |-> FALSE,
   isBiometricVerified |-> FALSE, showVerificationInput |-> FALSE,
   showBiometricVerification |-> FALSE, codeSince |-> FALSE]

Init ==
  /\ trusted_devices = [kind |-> "absent", list |-> << >>]
  /\ current_device_registered = Null
  /\ trusted_device_id = Null
  /\ verification_code = Null
  /\ fp_deviceId = Null
  /\ userAgent \in UserAgents
  /\ now = 0
  /\ ticks = 0
  /\ qrIssued = {}
  /\ codeLog = [issued |-> Null, checks |-> 0, superseded |-> Null]
  /\ last = [op |-> "init"]
  /\ sim = SimInit
  /\ inflight = [i \in Instances |-> Idle]

\* mutant: the stored identifier is not consulted after a page load
getDeviceId_ignoresStored(gen) ==
  IF fp_deviceId # Null /\ fp_deviceId # STR_Empty THEN fp_deviceId ELSE gen

\* DeviceFingerprint.getDeviceId: the value returned; gen is what uuidv4()
\* would return if it is called
getDeviceId(gen) ==
  IF fp_deviceId # Null /\ fp_deviceId # STR_Empty THEN fp_deviceId
  ELSE IF trusted_device_id # Null /\ trusted_device_id # STR_Empty
  THEN trusted_device_id
  ELSE gen

\* DeviceFingerprint.getDeviceId: its effect on the static field and the store
getDeviceIdEffect(gen) ==
  /\ fp_deviceId' = getDeviceId(gen)
  /\ trusted_device_id' =
       IF (fp_deviceId = Null \/ fp_deviceId = STR_Empty)
          /\ (trusted_device_id = Null \/ trusted_device_id = STR_Empty)
       THEN gen ELSE trusted_device_id

\* what uuidv4() can return in this state: any identifier when getDeviceId
\* would call it, and one arbitrary value (never used) when it would not
UuidChoices ==
  IF (fp_deviceId = Null \/ fp_deviceId = STR_Empty)
     /\ (trusted_device_id = Null \/ trusted_device_id = STR_Empty)
  THEN DeviceIds
  ELSE {<< Digit(1) >>}

generateFingerprint(gen) ==
  [deviceId |-> getDeviceId(gen),
   platform |-> detectPlatform(userAgent),
   deviceName |-> getDeviceName(userAgent),
   timestamp |-> toISOString(now)]

(* ------------------------- TrustedDeviceManager ------------------------ *)
\* getTrustedDevices on a stored value
parseTrustedDevices(stored) ==
  IF stored.kind = "json" THEN stored.list ELSE << >>

getTrustedDevices == parseTrustedDevices(trusted_devices)

\* what localStorage.setItem(TRUSTED_DEVICES_KEY, JSON.stringify(devices)) stores
storeDevices(devices) == [kind |-> "json", list |-> devices]

\* indices of the records whose deviceId is id
indicesOf(devices, id) ==
  {i \in 1..Len(devices) : Get(devices[i], "deviceId") = id}

\* mutant: the lookup never finds a record
findIndex_notFound(devices, id) == 0

\* devices.findIndex(d => d.deviceId === id), 0 for -1
findIndex(devices, id) ==
  IF indicesOf(devices, id) = {} THEN 0 ELSE Min(indicesOf(devices, id))

\* mutant: the spread order reversed, fields of the existing record win
addTrustedDevice_existingWins(devices, device, t) ==
  LET existingIndex == IF {i \in 1..Len(devices) :
                            Get(devices[i], "deviceId") = Get(device, "deviceId")} = {}
                       THEN 0
                       ELSE Min({i \in 1..Len(devices) :
                                  Get(devices[i], "deviceId") = Get(device, "deviceId")})
  IN IF existingIndex > 0
     THEN [devices EXCEPT ![existingIndex] =
             ("lastVerified" :> toISOString(t)) @@ devices[existingIndex] @@ device]
     ELSE Append(devices, device)

\* mutant: a merge keeps the lastVerified the caller passed in
addTrustedDevice_keepsLastVerified(devices, device, t) ==
  LET existingIndex == IF {i \in 1..Len(devices) :
                            Get(devices[i], "deviceId") = Get(device, "deviceId")} = {}
                       THEN 0
                       ELSE Min({i \in 1..Len(devices) :
                                  Get(devices[i], "deviceId") = Get(device, "deviceId")})
  IN IF existingIndex > 0
     THEN [devices EXCEPT ![existingIndex] = device @@ devices[existingIndex]]
     ELSE Append(devices, device)

\* mutant: an updated record is taken out and pushed at the end
addTrustedDevice_moveToEnd(devices, device, t) ==
  LET same(d) == Get(d, "deviceId") = Get(device, "deviceId")
      others(d) == ~ same(d)
  IN IF SelectSeq(devices, same) # << >>
     THEN Append(SelectSeq(devices, others),
                 ("lastVerified" :> toISOString(t)) @@ device
                    @@ SelectSeq(devices, same)[1])
     ELSE Append(devices, device)

\* mutant: no lookup of an existing record, the device is always pushed
addTrustedDevice_alwaysPush(devices, device, t) == Append(devices, device)

\* the list addTrustedDevice writes: merge into the existing record, or push
addTrustedDevice(devices, device, t) ==
  LET existingIndex == findIndex(devices, Get(device, "deviceId"))
  IN IF existingIndex > 0
     THEN [devices EXCEPT ![existingIndex] =
             ("lastVerified" :> toISOString(t)) @@ device @@ devices[existingIndex]]
     ELSE Append(devices, device)

\* mutant: the filter predicate inverted, only the named device is kept
filterOut_inverted(devices, deviceId) ==
  SelectSeq(devices, LAMBDA d : Get(d, "deviceId") = deviceId)

\* devices.filter(device => device.deviceId !== deviceId)
filterOut(devices, deviceId) ==
  SelectSeq(devices, LAMBDA d : Get(d, "deviceId") # deviceId)

\* mutant: the flag alone decides, the list is not consulted
isRegisteredIn_flagOnly(flag, stored, id) == flag = STR_true

\* isCurrentDeviceRegistered on given store contents
isRegisteredIn(flag, stored, id) ==
  /\ flag = STR_true
  /\ indicesOf(parseTrustedDevices(stored), id) # {}

isCurrentDeviceRegistered(gen) ==
  isRegisteredIn(current_device_registered, trusted_devices, getDeviceId(gen))

\* getCurrentDevice on a list: the first record with this id, or null
findDevice(devices, id) ==
  IF findIndex(devices, id) = 0 THEN Null ELSE devices[findIndex(devices, id)]

getCurrentDevice(gen) == findDevice(getTrustedDevices, getDeviceId(gen))

\* JavaScript truthiness of a string-or-missing value
Truthy(v) == v # Undefined /\ v # Null /\ v # STR_Empty

registerCurrentDevice(deviceName, phoneNumber, gen) ==
  LET deviceInfo == generateFingerprint(gen)
      trustedDevice ==
        [name |-> IF Truthy(deviceName) THEN deviceName ELSE deviceInfo.deviceName,
         isCurrentDevice |-> TRUE,
         lastVerified |-> toISOString(now),
         phoneNumber |-> IF Truthy(phoneNumber) THEN phoneNumber ELSE STR_Empty,
         biometricType |-> STR_none,
         biometricData |-> Null] @@ deviceInfo
      existed == findIndex(getTrustedDevices, deviceInfo.deviceId) > 0
      written == storeDevices(addTrustedDevice(getTrustedDevices, trustedDevice, now))
  IN /\ getDeviceIdEffect(gen)
     /\ current_device_registered' = STR_true
     /\ trusted_devices' = written
     /\ last' = [op |-> "registerCurrentDevice", ret |-> trustedDevice,
                 existed |-> existed, events |-> << written >>]
     /\ UNCHANGED << verification_code, userAgent, now, ticks, qrIssued, codeLog >>

\* mutant: every removal clears the registered flag
removeTrustedDevice_alwaysUnregisters(deviceId, gen) ==
  LET devices == filterOut(getTrustedDevices, deviceId)
      written == storeDevices(devices)
  IN /\ getDeviceIdEffect(gen)
     /\ trusted_devices' = written
     /\ current_device_registered' = Null
     /\ last' = [op |-> "removeTrustedDevice", arg |-> deviceId, ret |-> TRUE,
                 existed |-> findIndex(getTrustedDevices, deviceId) > 0,
                 registered |-> isCurrentDeviceRegistered(gen),
                 events |-> << written >>]
     /\ UNCHANGED << verification_code, userAgent, now, ticks, qrIssued, codeLog >>

\* mutant: the notification is dispatched before the list is written
removeTrustedDevice_notifyFirst(deviceId, gen) ==
  LET devices == filterOut(getTrustedDevices, deviceId)
      written == storeDevices(devices)
  IN /\ getDeviceIdEffect(gen)
     /\ trusted_devices' = written
     /\ current_device_registered' =
          IF deviceId = getDeviceId(gen) THEN Null ELSE current_device_registered
     /\ last' = [op |-> "removeTrustedDevice", arg |-> deviceId, ret |-> TRUE,
                 existed |-> findIndex(getTrustedDevices, deviceId) > 0,
                 registered |-> isCurrentDeviceRegistered(gen),
                 events |-> << trusted_devices >>]
     /\ UNCHANGED << verification_code, userAgent, now, ticks, qrIssued, codeLog >>

removeTrustedDevice(deviceId, gen) ==
  LET devices == filterOut(getTrustedDevices, deviceId)
      written == storeDevices(devices)
  IN /\ getDeviceIdEffect(gen)
     /\ trusted_devices' = written
     /\ current_device_registered' =
          IF deviceId = getDeviceId(gen) THEN Null ELSE current_device_registered
     /\ last' = [op |-> "removeTrustedDevice", arg |-> deviceId, ret |-> TRUE,
                 existed |-> findIndex(getTrustedDevices, deviceId) > 0,
                 registered |-> isCurrentDeviceRegistered(gen),
                 events |-> << written >>]
     /\ UNCHANGED << verification_code, userAgent, now, ticks, qrIssued, codeLog >>

registerBiometric(biometricData, type, gen) ==
  LET currentDevice == getCurrentDevice(gen)
      updated == ("biometricType" :> type) @@ ("biometricData" :> biometricData)
                   @@ currentDevice
      written == storeDevices(addTrustedDevice(getTrustedDevices, updated, now))
  IN /\ getDeviceIdEffect(gen)
     /\ IF currentDevice = Null
        THEN /\ last' = [op |-> "registerBiometric", ret |-> FALSE, events |-> << >>]
             /\ UNCHANGED trusted_devices
        ELSE /\ trusted_devices' = written
             /\ last' = [op |-> "registerBiometric", ret |-> TRUE,
                         events |-> << written >>]
     /\ UNCHANGED << current_device_registered, verification_code, userAgent, now,
                     ticks, qrIssued, codeLog >>

\* the value verifyBiometric returns
verifyBiometricResult(biometricData, gen) ==
  LET currentDevice == getCurrentDevice(gen)
  IN ~ (\/ currentDevice = Null
        \/ ~ Truthy(Get(currentDevice, "biometricData"))
        \/ Get(currentDevice, "biometricType") = STR_none)

verifyBiometric(biometricData, gen) ==
  /\ getDeviceIdEffect(gen)
  /\ last' = [op |-> "verifyBiometric", ret |-> verifyBiometricResult(biometricData, gen)]
  /\ UNCHANGED << trusted_devices, current_device_registered, verification_code,
                  userAgent, now, ticks, qrIssued, codeLog >>

\* A transaction amount is a JavaScript number: hundredths of the currency
\* unit, or NaN (what parseFloat gives for an empty field).
NaNAmount == [nan |-> TRUE, cents |-> 0]
Amount(c) == [nan |-> FALSE, cents |-> c]

\* mutant: strict comparison with the threshold
isHighValueTransaction_strict(amount) ==
  ~ amount.nan /\ amount.cents > HIGH_VALUE_THRESHOLD * 100

\* transaction.amount >= HIGH_VALUE_THRESHOLD; false for NaN
isHighValueTransaction(amount) ==
  ~ amount.nan /\ amount.cents >= HIGH_VALUE_THRESHOLD * 100

ResultUntrusted ==
  [verified |-> FALSE, riskLevel |-> "high", reason |-> "Untrusted device",
   recommendation |-> "Block transaction", requiresCallVerification |-> FALSE]

\* mutant: the biometric step-up also asks for call verification
ResultBiometricRequired_callToo ==
  [verified |-> FALSE, riskLevel |-> "medium",
   reason |-> "Biometric verification required",
   recommendation |-> "Complete biometric verification",
   requiresCallVerification |-> TRUE, requiresBiometricVerification |-> TRUE]

ResultBiometricRequired ==
  [verified |-> FALSE, riskLevel |-> "medium",
   reason |-> "Biometric verification required",
   recommendation |-> "Complete biometric verification",
   requiresCallVerification |-> FALSE, requiresBiometricVerification |-> TRUE]

ResultBiometricFailed ==
  [verified |-> FALSE, riskLevel |-> "high", reason |-> "Biometric verification failed",
   recommendation |-> "Block transaction", requiresCallVerification |-> FALSE]

ResultCallRequired ==
  [verified |-> TRUE, riskLevel |-> "medium",
   reason |-> "High-value transaction requires additional verification",
   recommendation |-> "Verify via phone call", requiresCallVerification |-> TRUE]

ResultTrusted ==
  [verified |-> TRUE, riskLevel |-> "low", reason |-> "Trusted device",
   recommendation |-> "Allow transaction", requiresCallVerification |-> FALSE]

ResultTrustedBiometric ==
  [verified |-> TRUE, riskLevel |-> "low",
   reason |-> "Trusted device with verified biometrics",
   recommendation |-> "Allow transaction", requiresCallVerification |-> FALSE]

\* a boolean result field that may be missing (undefined is falsy)
Flag(r, k) == k \in DOMAIN r /\ r[k]

\* mutant: the amount is looked at before device trust
verifyTransactionResult_amountFirst(amount, gen) ==
  IF ~ amount.nan /\ amount.cents >= HIGH_VALUE_THRESHOLD * 100 THEN ResultCallRequired
  ELSE IF ~ isCurrentDeviceRegistered(gen) THEN ResultUntrusted
  ELSE ResultTrusted

\* mutant: the threshold is looked at before the biometric step
verifyTransactionResult_thresholdFirst(amount, gen) ==
  LET currentDevice == getCurrentDevice(gen)
  IN IF ~ isCurrentDeviceRegistered(gen) THEN ResultUntrusted
     ELSE IF isHighValueTransaction(amount) THEN ResultCallRequired
     ELSE IF /\ (currentDevice = Null \/ Get(currentDevice, "biometricType") # STR_none)
             /\ (currentDevice = Null \/ ~ Truthy(Get(currentDevice, "biometricVerified")))
     THEN ResultBiometricRequired
     ELSE ResultTrusted

\* mutant: a high-value amount on a device without phone number is blocked
verifyTransactionResult_phoneRequired(amount, gen) ==
  LET currentDevice == getCurrentDevice(gen)
  IN IF ~ isCurrentDeviceRegistered(gen) THEN ResultUntrusted
     ELSE IF /\ (currentDevice = Null \/ Get(currentDevice, "biometricType") # STR_none)
             /\ (currentDevice = Null \/ ~ Truthy(Get(currentDevice, "biometricVerified")))
     THEN ResultBiometricRequired
     ELSE IF isHighValueTransaction(amount)
     THEN IF Truthy(Get(currentDevice, "phoneNumber")) THEN ResultCallRequired
          ELSE ResultUntrusted
     ELSE ResultTrusted

\* mutant: with an empty device list the trust test is skipped
verifyTransactionResult_emptyListUnchecked(amount, gen) ==
  LET currentDevice == getCurrentDevice(gen)
  IN IF getTrustedDevices # << >> /\ ~ isCurrentDeviceRegistered(gen)
     THEN ResultUntrusted
     ELSE IF /\ (currentDevice = Null \/ Get(currentDevice, "biometricType") # STR_none)
             /\ (currentDevice = Null \/ ~ Truthy(Get(currentDevice, "biometricVerified")))
     THEN ResultBiometricRequired
     ELSE IF isHighValueTransaction(amount) THEN ResultCallRequired
     ELSE ResultTrusted

\* the value verifyTransaction returns
verifyTransactionResult(amount, gen) ==
  LET currentDevice == getCurrentDevice(gen)
  IN IF ~ isCurrentDeviceRegistered(gen) THEN ResultUntrusted
     ELSE IF /\ (currentDevice = Null \/ Get(currentDevice, "biometricType") # STR_none)
             /\ (currentDevice = Null \/ ~ Truthy(Get(currentDevice, "biometricVerified")))
     THEN ResultBiometricRequired
     ELSE IF isHighValueTransaction(amount) THEN ResultCallRequired
     ELSE ResultTrusted

\* getDeviceId runs only when the registered flag is set
readIdEffect(gen) ==
  IF current_device_registered = STR_true
  THEN getDeviceIdEffect(gen)
  ELSE UNCHANGED << fp_deviceId, trusted_device_id >>

\* mutant: an evaluation uses up the outstanding verification code
verifyTransaction_consumesCode(amount, gen) ==
  /\ readIdEffect(gen)
  /\ verification_code' = Null
  /\ last' = [op |-> "verifyTransaction", amount |-> amount,
              trusted |-> isCurrentDeviceRegistered(gen),
              ret |-> verifyTransactionResult(amount, gen)]
  /\ UNCHANGED << trusted_devices, current_device_registered,
                  userAgent, now, ticks, qrIssued, codeLog >>

verifyTransaction(amount, gen) ==
  /\ readIdEffect(gen)
  /\ last' = [op |-> "verifyTransaction", amount |-> amount,
              trusted |-> isCurrentDeviceRegistered(gen),
              ret |-> verifyTransactionResult(amount, gen)]
  /\ UNCHANGED << trusted_devices, current_device_registered, verification_code,
                  userAgent, now, ticks, qrIssued, codeLog >>

\* the value verifyTransactionWithBiometric returns
verifyTransactionWithBiometricResult(amount, biometricData, gen) ==
  IF ~ isCurrentDeviceRegistered(gen) THEN ResultUntrusted
  ELSE IF ~ verifyBiometricResult(biometricData, gen) THEN ResultBiometricFailed
  ELSE IF isHighValueTransaction(amount) THEN ResultCallRequired
  ELSE ResultTrustedBiometric

verifyTransactionWithBiometric(amount, biometricData, gen) ==
  /\ readIdEffect(gen)
  /\ last' = [op |-> "verifyTransactionWithBiometric", amount |-> amount,
              trusted |-> isCurrentDeviceRegistered(gen),
              ret |-> verifyTransactionWithBiometricResult(amount, biometricData, gen)]
  /\ UNCHANGED << trusted_devices, current_device_registered, verification_code,
                  userAgent, now, ticks, qrIssued, codeLog >>

\* Number.prototype.toString of a six-digit integer
CodeToString(n) ==
  << Digit(n \div 100000), Digit((n \div 10000) % 10), Digit((n \div 1000) % 10),
     Digit((n \div 100) % 10), Digit((n \div 10) % 10), Digit(n % 10) >>

\* mutant: a code that is still outstanding is kept, the new one is dropped
generateVerificationCode_keepsPrior(r) ==
  /\ verification_code' =
       IF Truthy(verification_code) THEN verification_code ELSE CodeToString(r)
  /\ codeLog' = [issued |-> CodeToString(r), checks |-> 0,
                 superseded |-> verification_code]
  /\ last' = [op |-> "generateVerificationCode", ret |-> CodeToString(r)]
  /\ UNCHANGED << trusted_devices, current_device_registered, trusted_device_id,
                  fp_deviceId, userAgent, now, ticks, qrIssued >>

\* r stands for Math.floor(100000 + Math.random() * 900000)
generateVerificationCode(r) ==
  /\ verification_code' = CodeToString(r)
  /\ codeLog' = [issued |-> CodeToString(r), checks |-> 0,
                 superseded |-> verification_code]
  /\ last' = [op |-> "generateVerificationCode", ret |-> CodeToString(r)]
  /\ UNCHANGED << trusted_devices, current_device_registered, trusted_device_id,
                  fp_deviceId, userAgent, now, ticks, qrIssued >>

\* mutant: the stored code is cleared only when the entered code matched
verifyCode_keepOnMismatch(userEnteredCode) ==
  LET storedCode == verification_code
  IN /\ IF ~ Truthy(storedCode)
        THEN /\ last' = [op |-> "verifyCode", arg |-> userEnteredCode, ret |-> FALSE,
                         stored |-> storedCode]
             /\ UNCHANGED verification_code
        ELSE /\ verification_code' =
                  IF storedCode = userEnteredCode THEN Null ELSE storedCode
             /\ last' = [op |-> "verifyCode", arg |-> userEnteredCode,
                         ret |-> (storedCode = userEnteredCode), stored |-> storedCode]
     /\ codeLog' = [codeLog EXCEPT !.checks = IF @ < 2 THEN @ + 1 ELSE @]
     /\ UNCHANGED << trusted_devices, current_device_registered, trusted_device_id,
                     fp_deviceId, userAgent, now, ticks, qrIssued >>

\* mutant: with nothing stored, the missing code compares as the empty string
verifyCode_emptyMatchesNone(userEnteredCode) ==
  LET storedCode == verification_code
  IN /\ IF ~ Truthy(storedCode)
        THEN /\ last' = [op |-> "verifyCode", arg |-> userEnteredCode,
                         ret |-> (userEnteredCode = STR_Empty), stored |-> storedCode]
             /\ UNCHANGED verification_code
        ELSE /\ verification_code' = Null
             /\ last' = [op |-> "verifyCode", arg |-> userEnteredCode,
                         ret |-> (storedCode = userEnteredCode), stored |-> storedCode]
     /\ codeLog' = [codeLog EXCEPT !.checks = IF @ < 2 THEN @ + 1 ELSE @]
     /\ UNCHANGED << trusted_devices, current_device_registered, trusted_device_id,
                     fp_deviceId, userAgent, now, ticks, qrIssued >>

verifyCode(userEnteredCode) ==
  LET storedCode == verification_code
  IN /\ IF ~ Truthy(storedCode)
        THEN /\ last' = [op |-> "verifyCode", arg |-> userEnteredCode, ret |-> FALSE,
                         stored |-> storedCode]
             /\ UNCHANGED verification_code
        ELSE /\ verification_code' = Null
             /\ last' = [op |-> "verifyCode", arg |-> userEnteredCode,
                         ret |-> (storedCode = userEnteredCode), stored |-> storedCode]
     /\ codeLog' = [codeLog EXCEPT !.checks = IF @ < 2 THEN @ + 1 ELSE @]
     /\ UNCHANGED << trusted_devices, current_device_registered, trusted_device_id,
                     fp_deviceId, userAgent, now, ticks, qrIssued >>

(* ----------------------------- QRCodeManager --------------------------- *)
\* mutant: the lifetime is not added, the payload expires when it is issued
encodeQRCodeData_noLifetime(deviceInfo, sessionToken, t) ==
  btoa(JSONstringify(
    [hasInfo |-> TRUE, info |-> deviceInfo,
     top |-> [sessionToken |-> sessionToken, expiresAt |-> toISOString(t)]]))

\* the string generateQRCodeData returns for a fingerprint, a session token
\* and the time of the call
encodeQRCodeData(deviceInfo, sessionToken, t) ==
  btoa(JSONstringify(
    [hasInfo |-> TRUE, info |-> deviceInfo,
     top |-> [sessionToken |-> sessionToken,
              expiresAt |-> toISOString(t + QR_VALIDITY_MS)]]))

generateQRCodeData(sessionToken, gen) ==
  LET deviceInfo == generateFingerprint(gen)
      payload == encodeQRCodeData(deviceInfo, sessionToken, now)
      entry == [payload |-> payload, at |-> now, info |-> deviceInfo]
  IN /\ entry \in qrIssued \/ Cardinality(qrIssued) < MaxPayloads
     /\ getDeviceIdEffect(gen)
     /\ qrIssued' = qrIssued \cup {entry}
     /\ last' = [op |-> "generateQRCodeData", ret |-> payload]
     /\ UNCHANGED << trusted_devices, current_device_registered, verification_code,
                     userAgent, now, ticks, codeLog >>

\* the same call made by the SDK running on another device (its own device
\* id and user agent), whose payload is then shown to this instance
generateQRCodeDataElsewhere(id, ua, sessionToken) ==
  LET deviceInfo == [deviceId |-> id, platform |-> detectPlatform(ua),
                     deviceName |-> getDeviceName(ua), timestamp |-> toISOString(now)]
      payload == encodeQRCodeData(deviceInfo, sessionToken, now)
      entry == [payload |-> payload, at |-> now, info |-> deviceInfo]
  IN /\ entry \in qrIssued \/ Cardinality(qrIssued) < MaxPayloads
     /\ qrIssued' = qrIssued \cup {entry}
     /\ last' = [op |-> "generateQRCodeDataElsewhere", ret |-> payload]
     /\ UNCHANGED << storage, fp_deviceId, userAgent, now, ticks, codeLog >>

NoQRCodeData == [ok |-> FALSE]

\* parseQRCodeData at time t: ok = FALSE stands for the null it returns
parseQRCodeData(qrData, t) ==
  LET text == atob(qrData)
  IN IF ~ text.ok THEN NoQRCodeData
     ELSE LET decoded == JSONparse(text.val)
          IN IF ~ decoded.ok THEN NoQRCodeData
             ELSE IF DateLess(DateParse(Get(decoded.top, "expiresAt")), t)
             THEN NoQRCodeData
             ELSE decoded

\* mutant: the linked record is marked as the current device
linkedDevice_current(qrData, t) ==
  [name |-> (IF "platform" \in DOMAIN qrData.info THEN qrData.info.platform
             ELSE STR_undefined) \o STR_SpaceDevice,
   isCurrentDevice |-> TRUE,
   lastVerified |-> toISOString(t),
   phoneNumber |-> STR_Empty] @@ qrData.info

\* the record linkDeviceFromQR builds from parsed QR data
linkedDevice(qrData, t) ==
  [name |-> (IF "platform" \in DOMAIN qrData.info THEN qrData.info.platform
             ELSE STR_undefined) \o STR_SpaceDevice,
   isCurrentDevice |-> FALSE,
   lastVerified |-> toISOString(t),
   phoneNumber |-> STR_Empty] @@ qrData.info

\* mutant: a failed redemption writes back the list it read and notifies
processQRCodeData_writesOnFailure(qrData) ==
  LET parsedData == parseQRCodeData(qrData, now)
      trustedDevice == linkedDevice(parsedData, now)
      written == storeDevices(addTrustedDevice(getTrustedDevices, trustedDevice, now))
  IN /\ IF ~ parsedData.ok \/ ~ parsedData.hasInfo
        THEN /\ trusted_devices' = storeDevices(getTrustedDevices)
             /\ last' = [op |-> "processQRCodeData", arg |-> qrData, ok |-> FALSE,
                         events |-> << storeDevices(getTrustedDevices) >>]
        ELSE /\ trusted_devices' = written
             /\ last' = [op |-> "processQRCodeData", arg |-> qrData, ok |-> TRUE,
                         ret |-> trustedDevice,
                         existed |-> findIndex(getTrustedDevices,
                                               Get(trustedDevice, "deviceId")) > 0,
                         events |-> << written >>]
     /\ UNCHANGED << current_device_registered, trusted_device_id, verification_code,
                     fp_deviceId, userAgent, now, ticks, qrIssued, codeLog >>

\* SecurePaySDK.processQRCodeData: parseQRCodeData, then linkDeviceFromQR
processQRCodeData(qrData) ==
  LET parsedData == parseQRCodeData(qrData, now)
      trustedDevice == linkedDevice(parsedData, now)
      written == storeDevices(addTrustedDevice(getTrustedDevices, trustedDevice, now))
  IN /\ IF ~ parsedData.ok \/ ~ parsedData.hasInfo
        THEN /\ last' = [op |-> "processQRCodeData", arg |-> qrData, ok |-> FALSE,
                         events |-> << >>]
             /\ UNCHANGED trusted_devices
        ELSE /\ trusted_devices' = written
             /\ last' = [op |-> "processQRCodeData", arg |-> qrData, ok |-> TRUE,
                         ret |-> trustedDevice,
                         existed |-> findIndex(getTrustedDevices,
                                               Get(trustedDevice, "deviceId")) > 0,
                         events |-> << written >>]
     /\ UNCHANGED << current_device_registered, trusted_device_id, verification_code,
                     fp_deviceId, userAgent, now, ticks, qrIssued, codeLog >>

(* ------------------------------ SecurePaySDK --------------------------- *)
\* SecurePaySDK.isDeviceRegistered
isDeviceRegistered(gen) ==
  /\ readIdEffect(gen)
  /\ last' = [op |-> "isDeviceRegistered", ret |-> isCurrentDeviceRegistered(gen)]
  /\ UNCHANGED << trusted_devices, current_device_registered, verification_code,
                  userAgent, now, ticks, qrIssued, codeLog >>

\* SecurePaySDK.getDeviceInfo
getDeviceInfo(gen) ==
  /\ getDeviceIdEffect(gen)
  /\ last' = [op |-> "getDeviceInfo", ret |-> generateFingerprint(gen)]
  /\ UNCHANGED << trusted_devices, current_device_registered, verification_code,
                  userAgent, now, ticks, qrIssued, codeLog >>

(* --------------------------- DeviceRegistration ------------------------ *)
CH_SPACE == 32

\* String.prototype.trim
trim(s) ==
  LET kept == {i \in 1..Len(s) : s[i] # CH_SPACE}
  IN IF kept = {} THEN << >> ELSE SubSeq(s, Min(kept), Max(kept))

\* number.replace(/\D/g, '')
digitsOnly(s) == SelectSeq(s, IsDigit)

\* the value validatePhoneNumber returns
validatePhoneNumber(number) ==
  /\ trim(number) # << >>
  /\ Len(digitsOnly(number)) >= 10

\* The Register button of the form, once the component has mounted (its
\* mount effect has called getDeviceInfo): the phone number is validated
\* and only then is SecurePaySDK.registerCurrentDevice called.
handleRegisterDevice(deviceName, phoneNumber, gen) ==
  LET name == IF trim(deviceName) # << >> THEN trim(deviceName)
              ELSE detectPlatform(userAgent) \o STR_SpaceDevice
  IN /\ fp_deviceId # Null
     /\ IF ~ validatePhoneNumber(phoneNumber)
        THEN /\ last' = [op |-> "handleRegisterDevice", arg |-> phoneNumber,
                         ret |-> FALSE]
             /\ UNCHANGED << storage, fp_deviceId, userAgent, now, ticks, qrIssued,
                             codeLog >>
        ELSE registerCurrentDevice(name, phoneNumber, gen)

(* ------------------------------ environment ---------------------------- *)
TickSteps == {1, QR_VALIDITY_MS - 1}

Tick(steps) ==
  /\ ticks < MaxTicks
  /\ \E d \in steps : now' = now + d
  /\ ticks' = ticks + 1
  /\ last' = [op |-> "tick"]
  /\ UNCHANGED << storage, fp_deviceId, userAgent, qrIssued, codeLog >>

\* a page reload: static fields are reinitialised, localStorage persists
Reload ==
  /\ fp_deviceId' = Null
  /\ last' = [op |-> "reload"]
  /\ UNCHANGED << storage, userAgent, now, ticks, qrIssued, codeLog >>

\* what another script of the page (or the user, through the browser's
\* storage tools) can leave under the trusted_devices key: nothing, a text
\* that is not JSON, or the list without the records of one device
ExternalValues ==
  { [kind |-> "absent", list |-> << >>],
    [kind |-> "corrupt", list |-> << >>] }
  \cup { storeDevices(filterOut(getTrustedDevices, d)) : d \in DeviceIds }

\* localStorage['trusted_devices'] written from outside the SDK
storageEdit(value) ==
  /\ value # trusted_devices
  /\ trusted_devices' = value
  /\ last' = [op |-> "storageEdit"]
  /\ UNCHANGED << current_device_registered, trusted_device_id, verification_code,
                  fp_deviceId, userAgent, now, ticks, qrIssued, codeLog >>

DeviceNames == {STR_Empty, STR_MyPhone}
PhoneNumbers == {Undefined, STR_Phone10}
Biometrics == {<< STR_img, STR_face >>, << STR_img, STR_fingerprint >>,
               << STR_Empty, STR_none >>}
Amounts == {Amount(0), Amount(999999), Amount(1000000), NaNAmount}
CodeNumbers == {100000, 999999}
CodeEntries == {CodeToString(n) : n \in CodeNumbers} \cup {STR_Empty}
SessionTokens == {STR_tok}
\* what can be typed into the form's name and phone fields
FormNames == {STR_Empty, STR_MyPhone}
FormPhones == {STR_Empty, STR_PhoneShort, STR_Phone10}

\* a time-of-day far later than any the clock reaches
FarFuture == 24 * 3600000 - 1

\* strings a scanner can deliver that no SDK instance produced: not base64,
\* base64 of something that is not JSON, and a payload without deviceInfo
CraftedPayloads ==
  { << 99 >>,
    btoa(<< 120 >>),
    btoa(JSONstringify([hasInfo |-> FALSE, info |-> EmptyObject,
                        top |-> [sessionToken |-> STR_tok,
                                 expiresAt |-> toISOString(FarFuture)]])) }

\* payloads that decode to JSON but are not a well-formed link payload, for
\* the device id given: expiresAt missing, sessionToken missing, expiresAt
\* not a date, and deviceInfo without a deviceId
MalformedPayloads(id) ==
  LET info == [deviceId |-> id, platform |-> STR_Android,
               deviceName |-> STR_Android \o STR_SpaceDevice,
               timestamp |-> toISOString(0)]
      anonymous == [platform |-> STR_Android,
                    deviceName |-> STR_Android \o STR_SpaceDevice,
                    timestamp |-> toISOString(0)]
  IN { btoa(JSONstringify([hasInfo |-> TRUE, info |-> info,
                           top |-> [sessionToken |-> STR_tok]])),
       btoa(JSONstringify([hasInfo |-> TRUE, info |-> info,
                           top |-> [expiresAt |-> toISOString(FarFuture)]])),
       btoa(JSONstringify([hasInfo |-> TRUE, info |-> info,
                           top |-> [sessionToken |-> STR_tok,
                                    expiresAt |-> STR_tok]])),
       btoa(JSONstringify([hasInfo |-> TRUE, info |-> anonymous,
                           top |-> [sessionToken |-> STR_tok,
                                    expiresAt |-> toISOString(FarFuture)]])) }

\* Trust store: every operation that writes trusted_devices or the
\* registered flag, and link payloads issued here and elsewhere.
\* The clock moves in single milliseconds.
Next ==
  \/ \E n \in DeviceNames, ph \in PhoneNumbers, gen \in UuidChoices :
       registerCurrentDevice(n, ph, gen) /\ UNCHANGED << sim, inflight >>
  \/ \E d \in DeviceIds, gen \in UuidChoices : removeTrustedDevice(d, gen)
         /\ UNCHANGED << sim, inflight >>
  \/ \E b \in Biometrics, gen \in UuidChoices : registerBiometric(b[1], b[2], gen)
         /\ UNCHANGED << sim, inflight >>
  \/ \E tok \in SessionTokens, gen \in UuidChoices : generateQRCodeData(tok, gen)
         /\ UNCHANGED << sim, inflight >>
  \/ \E d \in DeviceIds, tok \in SessionTokens :
       generateQRCodeDataElsewhere(d, userAgent, tok) /\ UNCHANGED << sim, inflight >>
  \/ \E e \in qrIssued : processQRCodeData(e.payload) /\ UNCHANGED << sim, inflight >>
  \/ Tick({1}) /\ UNCHANGED << sim, inflight >>

Spec == Init /\ [][Next]_vars

\* Linking protocol: issue and redemption of payloads against the clock,
\* which also moves by just under the payload lifetime.
NextLink ==
  \/ \E gen \in UuidChoices : registerCurrentDevice(STR_MyPhone, Undefined, gen)
         /\ UNCHANGED << sim, inflight >>
  \/ \E d \in DeviceIds, gen \in UuidChoices : removeTrustedDevice(d, gen)
         /\ UNCHANGED << sim, inflight >>
  \/ \E tok \in SessionTokens, gen \in UuidChoices : generateQRCodeData(tok, gen)
         /\ UNCHANGED << sim, inflight >>
  \/ \E d \in DeviceIds, tok \in SessionTokens :
       generateQRCodeDataElsewhere(d, userAgent, tok) /\ UNCHANGED << sim, inflight >>
  \/ \E e \in qrIssued : processQRCodeData(e.payload) /\ UNCHANGED << sim, inflight >>
  \/ \E p \in CraftedPayloads : processQRCodeData(p) /\ UNCHANGED << sim, inflight >>
  \/ Tick(TickSteps) /\ UNCHANGED << sim, inflight >>

SpecLink == Init /\ [][NextLink]_vars

\* Risk engine and verification code service: the evaluations and the code
\* operations, over the trust states that register, biometric enrolment and
\* removal produce.  None of the evaluations writes the trust store and no
\* trust-store operation touches verification_code.
NextRisk ==
  \/ \E n \in DeviceNames, ph \in PhoneNumbers, gen \in UuidChoices :
       registerCurrentDevice(n, ph, gen) /\ UNCHANGED << sim, inflight >>
  \/ \E d \in DeviceIds, gen \in UuidChoices : removeTrustedDevice(d, gen)
         /\ UNCHANGED << sim, inflight >>
  \/ \E b \in Biometrics, gen \in UuidChoices : registerBiometric(b[1], b[2], gen)
         /\ UNCHANGED << sim, inflight >>
  \/ \E gen \in UuidChoices : verifyBiometric(STR_img, gen)
         /\ UNCHANGED << sim, inflight >>
  \/ \E a \in Amounts, gen \in UuidChoices : verifyTransaction(a, gen)
         /\ UNCHANGED << sim, inflight >>
  \/ \E a \in Amounts, gen \in UuidChoices :
       verifyTransactionWithBiometric(a, STR_img, gen) /\ UNCHANGED << sim, inflight >>
  \/ \E r \in CodeNumbers : generateVerificationCode(r) /\ UNCHANGED << sim, inflight >>
  \/ \E c \in CodeEntries : verifyCode(c) /\ UNCHANGED << sim, inflight >>
  \/ Reload /\ UNCHANGED << sim, inflight >>

SpecRisk == Init /\ [][NextRisk]_vars

\* Trust store under outside interference: registration and removal, the
\* trusted_devices key edited from outside the SDK, the registered query and
\* the evaluation of a transaction.
NextStore ==
  \/ \E ph \in PhoneNumbers, gen \in UuidChoices :
       registerCurrentDevice(STR_MyPhone, ph, gen) /\ UNCHANGED << sim, inflight >>
  \/ \E d \in DeviceIds, gen \in UuidChoices : removeTrustedDevice(d, gen)
         /\ UNCHANGED << sim, inflight >>
  \/ \E v \in ExternalValues : storageEdit(v) /\ UNCHANGED << sim, inflight >>
  \/ \E gen \in UuidChoices : isDeviceRegistered(gen) /\ UNCHANGED << sim, inflight >>
  \/ \E a \in Amounts, gen \in UuidChoices : verifyTransaction(a, gen)
         /\ UNCHANGED << sim, inflight >>
  \/ Tick({1}) /\ UNCHANGED << sim, inflight >>

SpecStore == Init /\ [][NextStore]_vars

\* Registration: the form's Register button and the SDK entry point called
\* directly, with the phone numbers a caller can supply.
NextForm ==
  \/ \E gen \in UuidChoices : getDeviceInfo(gen) /\ UNCHANGED << sim, inflight >>
  \/ \E n \in FormNames, ph \in FormPhones, gen \in UuidChoices :
       handleRegisterDevice(n, ph, gen) /\ UNCHANGED << sim, inflight >>
  \/ \E ph \in FormPhones \cup {Undefined}, gen \in UuidChoices :
       registerCurrentDevice(STR_MyPhone, ph, gen) /\ UNCHANGED << sim, inflight >>
  \/ \E d \in DeviceIds, gen \in UuidChoices : removeTrustedDevice(d, gen)
         /\ UNCHANGED << sim, inflight >>
  \/ Tick({1}) /\ UNCHANGED << sim, inflight >>

SpecForm == Init /\ [][NextForm]_vars

\* Scanner input: strings that no SDK instance produced, delivered to
\* processQRCodeData on a device that may or may not be registered.
NextScan ==
  \/ \E gen \in UuidChoices : registerCurrentDevice(STR_MyPhone, Undefined, gen)
         /\ UNCHANGED << sim, inflight >>
  \/ \E d \in DeviceIds, gen \in UuidChoices : removeTrustedDevice(d, gen)
         /\ UNCHANGED << sim, inflight >>
  \/ \E d \in DeviceIds : \E p \in MalformedPayloads(d) : processQRCodeData(p)
         /\ UNCHANGED << sim, inflight >>

SpecScan == Init /\ [][NextScan]_vars

\* identifiers of the other devices whose link payloads reach this one
ForeignIds == {<< Digit(n) >> : n \in 1..MaxDeviceId + 1}

\* the payload generateQRCodeData returns on another device (an Android
\* phone) with identifier id, at the present time
foreignPayload(id) ==
  encodeQRCodeData([deviceId |-> id, platform |-> STR_Android,
                    deviceName |-> STR_Android \o STR_SpaceDevice,
                    timestamp |-> toISOString(now)],
                   STR_tok, now)

\* Device list: registration and biometric enrolment of this device, links
\* of up to three other devices, and removals, so that the list holds
\* several records around the one an operation targets.
NextOrder ==
  \/ \E gen \in UuidChoices : registerCurrentDevice(STR_MyPhone, Undefined, gen)
         /\ UNCHANGED << sim, inflight >>
  \/ \E gen \in UuidChoices : registerBiometric(STR_img, STR_face, gen)
         /\ UNCHANGED << sim, inflight >>
  \/ \E d \in ForeignIds : processQRCodeData(foreignPayload(d))
         /\ UNCHANGED << sim, inflight >>
  \/ \E d \in ForeignIds, gen \in UuidChoices : removeTrustedDevice(d, gen)
         /\ UNCHANGED << sim, inflight >>

SpecOrder == Init /\ [][NextOrder]_vars

\* Writes against the clock: each operation that goes through
\* addTrustedDevice, for this device and for one linked from elsewhere,
\* with the clock advancing between them.
NextRefresh ==
  \/ \E gen \in UuidChoices : registerCurrentDevice(STR_MyPhone, Undefined, gen)
         /\ UNCHANGED << sim, inflight >>
  \/ \E gen \in UuidChoices : registerBiometric(STR_img, STR_face, gen)
         /\ UNCHANGED << sim, inflight >>
  \/ \E d \in DeviceIds : processQRCodeData(foreignPayload(d))
         /\ UNCHANGED << sim, inflight >>
  \/ Tick({1}) /\ UNCHANGED << sim, inflight >>

SpecRefresh == Init /\ [][NextRefresh]_vars

(* ===================== instances sharing one store ===================== *)
\* Several instances of the SDK (tabs of one browser) run against the same
\* localStorage.  addTrustedDevice reads the list (getTrustedDevices), edits
\* its copy and writes the copy back (setItem); nothing in it keeps another
\* instance from reading or writing in between, so the read and the write
\* are separate steps here.

\* instance i redeems a payload up to the read of the list: parseQRCodeData,
\* the record linkDeviceFromQR builds, and addTrustedDevice's
\* getTrustedDevices()
addTrustedDevice_read(i, qrData) ==
  LET parsedData == parseQRCodeData(qrData, now)
  IN /\ inflight[i].pc # "read"
     /\ parsedData.ok
     /\ parsedData.hasInfo
     /\ inflight' = [inflight EXCEPT ![i] =
                       [pc |-> "read", arg |-> qrData,
                        device |-> linkedDevice(parsedData, now),
                        devices |-> getTrustedDevices]]
     /\ last' = [op |-> "addTrustedDevice.read", instance |-> i]
     /\ UNCHANGED << storage, fp_deviceId, userAgent, now, ticks, qrIssued,
                     codeLog, sim >>

\* mutant: the decision is taken on the copy, the push is made on the
\* list as it is stored now
addTrustedDevice_write_pushOnStored(i) ==
  LET own == inflight[i]
      written == storeDevices(
                   IF findIndex(own.devices, Get(own.device, "deviceId")) > 0
                   THEN addTrustedDevice(own.devices, own.device, now)
                   ELSE Append(getTrustedDevices, own.device))
  IN /\ own.pc = "read"
     /\ trusted_devices' = written
     /\ inflight' = [inflight EXCEPT ![i] =
                       [pc |-> "done", arg |-> own.arg, device |-> own.device,
                        raced |-> own.devices # getTrustedDevices]]
     /\ last' = [op |-> "addTrustedDevice.write", instance |-> i,
                 events |-> << written >>]
     /\ UNCHANGED << current_device_registered, trusted_device_id,
                     verification_code, fp_deviceId, userAgent, now, ticks,
                     qrIssued, codeLog, sim >>

\* instance i finishes: findIndex and merge or push on the copy it read,
\* setItem, and the notification; raced records that the stored list was
\* no longer the one it had read
addTrustedDevice_write(i) ==
  LET own == inflight[i]
      written == storeDevices(addTrustedDevice(own.devices, own.device, now))
  IN /\ own.pc = "read"
     /\ trusted_devices' = written
     /\ inflight' = [inflight EXCEPT ![i] =
                       [pc |-> "done", arg |-> own.arg, device |-> own.device,
                        raced |-> own.devices # getTrustedDevices]]
     /\ last' = [op |-> "addTrustedDevice.write", instance |-> i,
                 events |-> << written >>]
     /\ UNCHANGED << current_device_registered, trusted_device_id,
                     verification_code, fp_deviceId, userAgent, now, ticks,
                     qrIssued, codeLog, sim >>

\* Two instances redeem payloads of other devices; their reads and writes
\* of trusted_devices interleave in every order.
NextShared ==
  \/ \E i \in Instances, d \in DeviceIds : addTrustedDevice_read(i, foreignPayload(d))
  \/ \E i \in Instances : addTrustedDevice_write(i)

SpecShared == Init /\ [][NextShared]_vars

(* ========================= TransactionSimulator ======================== *)

CH_MINUS == 45
CH_PLUS == 43

\* the number of decimal digits of s starting at position i
RECURSIVE DigitsPrefixLen(_, _)
DigitsPrefixLen(s, i) ==
  IF i <= Len(s) /\ IsDigit(s[i]) THEN 1 + DigitsPrefixLen(s, i + 1) ELSE 0

\* the value of the n decimal digits of s starting at position i
RECURSIVE DigitsValue(_, _, _)
DigitsValue(s, i, n) ==
  IF n = 0 THEN 0
  ELSE 10 * DigitsValue(s, i, n - 1) + (s[i + n - 1] - CH_0)

\* parseFloat of the amount field: an optional sign, digits, an optional
\* fraction; whatever follows is ignored and a text with no digits is NaN.
\* Amounts are kept in cents, so the fraction is read to two places.
parseFloat(text) ==
  LET neg   == Len(text) > 0 /\ text[1] = CH_MINUS
      start == IF Len(text) > 0 /\ text[1] \in {CH_MINUS, CH_PLUS} THEN 2 ELSE 1
      n     == DigitsPrefixLen(text, start)
      dot   == start + n <= Len(text) /\ text[start + n] = CH_DOT
      m     == IF dot THEN DigitsPrefixLen(text, start + n + 1) ELSE 0
      tenth == IF m >= 1 THEN text[start + n + 1] - CH_0 ELSE 0
      hundr == IF m >= 2 THEN text[start + n + 2] - CH_0 ELSE 0
      mag   == 100 * DigitsValue(text, start, n) + 10 * tenth + hundr
  IN IF n = 0 /\ m = 0
     THEN NaNAmount
     ELSE [nan |-> FALSE, cents |-> IF neg THEN 0 - mag ELSE mag]

\* SecurePaySDK.getBiometricType: device?.biometricType || null
getBiometricType(gen) ==
  LET device == getCurrentDevice(gen)
  IN IF device = Null THEN Null
     ELSE IF Truthy(Get(device, "biometricType")) THEN device["biometricType"]
     ELSE Null

\* currentDevice?.phoneNumber is truthy in the snapshot taken at mount
hasPhoneNumber ==
  /\ sim.currentDevice # Null
  /\ Truthy(Get(sim.currentDevice, "phoneNumber"))

\* the mount effect: reads the registration and the current device once;
\* every useState hook starts from its initial value
mountTransactionSimulator(gen) ==
  /\ getDeviceIdEffect(gen)
  /\ sim' = [SimInit EXCEPT !.mounted = TRUE,
                            !.currentDevice = getCurrentDevice(gen)]
  /\ last' = [op |-> "mountTransactionSimulator"]
  /\ UNCHANGED << trusted_devices, current_device_registered, verification_code,
                  userAgent, now, ticks, qrIssued, codeLog >>

\* the Simulate Transaction button; it is not rendered while the biometric
\* prompt is shown and is disabled while the code input is shown
simulateTransaction(amountText, gen) ==
  LET amount  == parseFloat(amountText)
      bioType == getBiometricType(gen)
      fresh   == [sim EXCEPT !.currentTransaction = amount,
                             !.isBiometricVerified = FALSE,
                             !.isCallVerified = FALSE,
                             !.codeSince = FALSE]
  IN /\ sim.mounted
     /\ fp_deviceId # Null
     /\ ~ sim.showVerificationInput
     /\ ~ sim.showBiometricVerification
     /\ IF bioType # Null /\ bioType # STR_none
        THEN /\ sim' = [fresh EXCEPT !.showBiometricVerification = TRUE]
             /\ last' = [op |-> "simulateTransaction", amount |-> amount]
             /\ UNCHANGED << trusted_devices, current_device_registered,
                             trusted_device_id, verification_code, fp_deviceId,
                             userAgent, now, ticks, qrIssued, codeLog >>
        ELSE /\ verifyTransaction(amount, gen)
             /\ sim' = [fresh EXCEPT !.verificationResult =
                                       verifyTransactionResult(amount, gen)]

\* onVerified of the biometric prompt: the check succeeded
handleBiometricVerified(gen) ==
  /\ sim.mounted
  /\ fp_deviceId # Null
  /\ sim.showBiometricVerification
  /\ IF "null" \notin DOMAIN sim.currentTransaction
     THEN /\ verifyTransaction(sim.currentTransaction, gen)
          /\ sim' = [sim EXCEPT !.isBiometricVerified = TRUE,
                                !.showBiometricVerification = FALSE,
                                !.verificationResult =
                                   verifyTransactionResult(sim.currentTransaction, gen)]
     ELSE /\ sim' = [sim EXCEPT !.isBiometricVerified = TRUE,
                                !.showBiometricVerification = FALSE]
          /\ last' = [op |-> "handleBiometricVerified"]
          /\ UNCHANGED << trusted_devices, current_device_registered,
                          trusted_device_id, verification_code, fp_deviceId,
                          userAgent, now, ticks, qrIssued, codeLog >>

\* onCancel of the biometric prompt
cancelBiometricVerification ==
  /\ sim.mounted
  /\ sim.showBiometricVerification
  /\ sim' = [sim EXCEPT !.showBiometricVerification = FALSE,
                        !.verificationResult = NoObject,
                        !.currentTransaction = NoObject]
  /\ last' = [op |-> "cancelBiometricVerification"]
  /\ UNCHANGED << trusted_devices, current_device_registered, trusted_device_id,
                  verification_code, fp_deviceId, userAgent, now, ticks, qrIssued,
                  codeLog >>

\* the Verify via Call button: rendered for a result that requires call
\* verification and is not yet call-verified; a device without a phone
\* number gets the toast and nothing else
initiateCallVerification(r) ==
  /\ sim.mounted
  /\ ~ sim.showBiometricVerification
  /\ ~ sim.showVerificationInput
  /\ "null" \notin DOMAIN sim.verificationResult
  /\ Flag(sim.verificationResult, "requiresCallVerification")
  /\ ~ sim.isCallVerified
  /\ IF ~ hasPhoneNumber
     THEN /\ last' = [op |-> "initiateCallVerification"]
          /\ UNCHANGED << trusted_devices, current_device_registered,
                          trusted_device_id, verification_code, fp_deviceId,
                          userAgent, now, ticks, qrIssued, codeLog, sim >>
     ELSE /\ generateVerificationCode(r)
          /\ sim' = [sim EXCEPT !.showVerificationInput = TRUE,
                                !.codeSince = TRUE]

\* the Verify button of the code input, with the text typed into it
TransactionSimulator_verifyCode_approvesAnyCode(verificationCode) ==
  /\ sim.mounted
  /\ ~ sim.showBiometricVerification
  /\ sim.showVerificationInput
  /\ IF Len(verificationCode) # 6
     THEN /\ last' = [op |-> "TransactionSimulator.verifyCode",
                      arg |-> verificationCode]
          /\ UNCHANGED << trusted_devices, current_device_registered,
                          trusted_device_id, verification_code, fp_deviceId,
                          userAgent, now, ticks, qrIssued, codeLog, sim >>
     ELSE /\ verifyCode(verificationCode)
          /\ sim' = [sim EXCEPT !.isCallVerified = TRUE,
                                !.showVerificationInput = FALSE]

TransactionSimulator_verifyCode(verificationCode) ==
  LET isValid == Truthy(verification_code) /\ verification_code = verificationCode
  IN /\ sim.mounted
     /\ ~ sim.showBiometricVerification
     /\ sim.showVerificationInput
     /\ IF Len(verificationCode) # 6
        THEN /\ last' = [op |-> "TransactionSimulator.verifyCode",
                         arg |-> verificationCode]
             /\ UNCHANGED << trusted_devices, current_device_registered,
                             trusted_device_id, verification_code, fp_deviceId,
                             userAgent, now, ticks, qrIssued, codeLog, sim >>
        ELSE /\ verifyCode(verificationCode)
             /\ sim' = IF isValid
                       THEN [sim EXCEPT !.isCallVerified = TRUE,
                                        !.showVerificationInput = FALSE]
                       ELSE sim

\* the Cancel button of the code input
cancelVerification ==
  /\ sim.mounted
  /\ sim.showVerificationInput
  /\ sim' = [sim EXCEPT !.showVerificationInput = FALSE]
  /\ last' = [op |-> "cancelVerification"]
  /\ UNCHANGED << trusted_devices, current_device_registered, trusted_device_id,
                  verification_code, fp_deviceId, userAgent, now, ticks, qrIssued,
                  codeLog >>

\* texts of the amount field: empty, an ordinary amount, the call-verification
\* threshold, a negative amount
AmountTexts ==
  { STR_Empty, << 49, 48, 48, 46, 48, 48 >>, << 49, 48, 48, 48, 48 >>,
    << 45, 53 >> }

\* The simulator page on a device that can be registered, with or without a
\* phone number, and enrolled for face recognition.
NextSim ==
  \/ \E ph \in PhoneNumbers, gen \in UuidChoices :
       registerCurrentDevice(STR_MyPhone, ph, gen) /\ UNCHANGED << sim, inflight >>
  \/ \E gen \in UuidChoices : registerBiometric(STR_img, STR_face, gen)
         /\ UNCHANGED << sim, inflight >>
  \/ \E gen \in UuidChoices : mountTransactionSimulator(gen) /\ UNCHANGED inflight
  \/ \E t \in AmountTexts, gen \in UuidChoices : simulateTransaction(t, gen)
         /\ UNCHANGED inflight
  \/ \E gen \in UuidChoices : handleBiometricVerified(gen) /\ UNCHANGED inflight
  \/ cancelBiometricVerification /\ UNCHANGED inflight
  \/ \E r \in CodeNumbers : initiateCallVerification(r) /\ UNCHANGED inflight
  \/ \E c \in CodeEntries : TransactionSimulator_verifyCode(c) /\ UNCHANGED inflight
  \/ cancelVerification /\ UNCHANGED inflight

SpecSim == Init /\ [][NextSim]_vars

(* ============================== properties ============================= *)

\* the records of the stored list whose deviceId is id
RecordsOf(id) == indicesOf(getTrustedDevices, id)

\* C1: after registerCurrentDevice the store holds a record for the current
\* device id with isCurrentDevice = true, and isCurrentDeviceRegistered()
\* returns true.
C1_RegisterMakesCurrentDeviceTrusted ==
  last.op = "registerCurrentDevice" =>
    \A gen \in UuidChoices :
      /\ getCurrentDevice(gen) # Null
      /\ getCurrentDevice(gen).isCurrentDevice = TRUE
      /\ isCurrentDeviceRegistered(gen)

\* C1 witness: a registration that found a record for this id already there
\* (one linked from a payload, or an earlier registration)
C1_Witness ==
  /\ last.op = "registerCurrentDevice"
  /\ last.existed
  /\ Len(getTrustedDevices) = 2

\* C2: removeTrustedDevice(current id) followed at once by
\* isCurrentDeviceRegistered() yields false: no record for the current id is
\* left and the current_device_registered flag is cleared.
C2_RemoveCurrentUntrusts ==
  (last.op = "removeTrustedDevice" /\ last.arg = fp_deviceId) =>
    /\ \A gen \in UuidChoices : ~ isCurrentDeviceRegistered(gen)
    /\ RecordsOf(fp_deviceId) = {}
    /\ current_device_registered = Null

\* C2 witness: the current device was registered and has just been removed
C2_Witness ==
  /\ last.op = "removeTrustedDevice"
  /\ last.arg = fp_deviceId
  /\ last.registered

\* C3: when the current device is not trusted, verifyTransaction and
\* verifyTransactionWithBiometric return verified = false, riskLevel = high,
\* reason 'Untrusted device' and neither step-up flag, for every amount.
C3_UntrustedIsBlocked ==
  (/\ last.op \in {"verifyTransaction", "verifyTransactionWithBiometric"}
   /\ \A gen \in UuidChoices : ~ isCurrentDeviceRegistered(gen)) =>
    /\ last.ret.verified = FALSE
    /\ last.ret.riskLevel = "high"
    /\ last.ret.reason = "Untrusted device"
    /\ ~ Flag(last.ret, "requiresCallVerification")
    /\ ~ Flag(last.ret, "requiresBiometricVerification")

\* C3 witness: a high-value transaction evaluated on an untrusted device
C3_Witness ==
  /\ last.op = "verifyTransaction"
  /\ \A gen \in UuidChoices : ~ isCurrentDeviceRegistered(gen)
  /\ ~ last.amount.nan
  /\ last.amount.cents >= 10000 * 100

\* the current device is trusted and its record has biometricType 'none'
TrustedWithoutBiometric ==
  \A gen \in UuidChoices :
    /\ isCurrentDeviceRegistered(gen)
    /\ Get(getCurrentDevice(gen), "biometricType") = STR_none

\* C4: for a trusted current device with no biometric enrolled,
\* verifyTransaction demands call verification (verified, medium) exactly
\* when amount >= 10000 and otherwise approves (verified, low, no step-up
\* flag); 9999.99 is approved, 10000.00 needs call verification.
C4_ThresholdDecides ==
  (last.op = "verifyTransaction" /\ TrustedWithoutBiometric) =>
    IF ~ last.amount.nan /\ last.amount.cents >= 10000 * 100
    THEN /\ last.ret.requiresCallVerification = TRUE
         /\ last.ret.verified = TRUE
         /\ last.ret.riskLevel = "medium"
         /\ ~ Flag(last.ret, "requiresBiometricVerification")
    ELSE /\ last.ret.requiresCallVerification = FALSE
         /\ last.ret.verified = TRUE
         /\ last.ret.riskLevel = "low"
         /\ ~ Flag(last.ret, "requiresBiometricVerification")

\* C4 witness: exactly 10000.00 evaluated on a trusted device without biometric
C4_Witness ==
  /\ last.op = "verifyTransaction"
  /\ TrustedWithoutBiometric
  /\ last.amount = Amount(10000 * 100)
  /\ last.ret.requiresCallVerification

\* C5: every verifyCode call removes the outstanding code whether or not the
\* candidate matched, so of the verifyCode calls made after one
\* generateVerificationCode only the first can return true: a second call,
\* even with the correct code, returns false.
C5_OneAttemptPerCode ==
  last.op = "verifyCode" =>
    /\ verification_code = Null
    /\ (codeLog.checks >= 2 => last.ret = FALSE)

\* C5 witness: a code was issued, one check was spent, and the issued code
\* itself has just been entered in a second check
C5_Witness ==
  /\ last.op = "verifyCode"
  /\ codeLog.issued # Null
  /\ codeLog.checks = 2
  /\ last.arg = codeLog.issued

\* the issued payloads that the last processQRCodeData call was given
Redeemed == {e \in qrIssued : e.payload = last.arg}

\* C6: a payload produced by generateQRCodeData at time t is accepted by
\* processQRCodeData at any time strictly before t + 5 minutes, producing and
\* storing a record with isCurrentDevice = false, and is rejected (null) at
\* any time after t + 5 minutes.
C6_ValidForFiveMinutes ==
  last.op = "processQRCodeData" =>
    \A e \in Redeemed :
      /\ now < e.at + 5 * 60 * 1000 =>
           /\ last.ok
           /\ last.ret.isCurrentDevice = FALSE
           /\ RecordsOf(e.info.deviceId) # {}
           /\ \A i \in RecordsOf(e.info.deviceId) :
                getTrustedDevices[i].isCurrentDevice = FALSE
      /\ now > e.at + 5 * 60 * 1000 => ~ last.ok

\* C6 witness: a payload redeemed one millisecond before its lifetime ends
C6_Witness ==
  /\ last.op = "processQRCodeData"
  /\ last.ok
  /\ \E e \in Redeemed : now = e.at + 5 * 60 * 1000 - 1

\* C7: redemption is rejected whenever the current time is greater than or
\* equal to the payload's expiresAt, including the instant now = expiresAt.
C7_RejectedFromExpiry ==
  last.op = "processQRCodeData" =>
    \A e \in Redeemed : now >= e.at + 5 * 60 * 1000 => ~ last.ok

\* C8: parseQRCodeData applied to a payload produced by generateQRCodeData,
\* inside the validity window, returns the deviceInfo that was encoded.
C8_RoundTrip ==
  \A e \in qrIssued :
    now < e.at + 5 * 60 * 1000 =>
      /\ parseQRCodeData(e.payload, now).ok
      /\ parseQRCodeData(e.payload, now).hasInfo
      /\ parseQRCodeData(e.payload, now).info = e.info

\* C8 witness: a payload parsed and linked some time after it was issued,
\* inside its window
C8_Witness ==
  /\ last.op = "processQRCodeData"
  /\ last.ok
  /\ \E e \in Redeemed : e.at < now /\ now < e.at + 5 * 60 * 1000

\* C9: a second registerCurrentDevice for the same device id leaves exactly
\* one entry for that deviceId, keeps its deviceId, and sets its lastVerified
\* to the time of the second call.
C9_ReRegisterUpdatesInPlace ==
  (last.op = "registerCurrentDevice" /\ last.existed) =>
    /\ Cardinality(RecordsOf(fp_deviceId)) = 1
    /\ \A i \in RecordsOf(fp_deviceId) :
         /\ getTrustedDevices[i].deviceId = last.ret.deviceId
         /\ getTrustedDevices[i].lastVerified = toISOString(now)

\* C9 witness: a registration, after the clock has moved, of a device that
\* is already trusted
C9_Witness ==
  /\ last.op = "registerCurrentDevice"
  /\ last.existed
  /\ ticks > 0
  /\ current_device_registered = STR_true

\* C10: the trusted_devices list holds at most one record per deviceId.
C10_OneRecordPerDeviceId ==
  \A i, j \in 1..Len(getTrustedDevices) :
    Get(getTrustedDevices[i], "deviceId") = Get(getTrustedDevices[j], "deviceId")
      => i = j

\* C10 witness: a payload linked for a device that already had a record,
\* with another device in the list
C10_Witness ==
  /\ last.op = "processQRCodeData"
  /\ last.ok
  /\ last.existed
  /\ Len(getTrustedDevices) = 2


\* the records of the stored list marked isCurrentDevice = true
CurrentMarked ==
  {i \in 1..Len(getTrustedDevices) :
     /\ "isCurrentDevice" \in DOMAIN getTrustedDevices[i]
     /\ getTrustedDevices[i].isCurrentDevice = TRUE}

\* C11: in every state reached by register, link, biometric enrolment and
\* remove operations at most one stored record has isCurrentDevice = true,
\* and such a record carries the running instance's device id.
C11_OneCurrentRecord ==
  /\ Cardinality(CurrentMarked) <= 1
  /\ \A i \in CurrentMarked, gen \in UuidChoices :
       Get(getTrustedDevices[i], "deviceId") = getDeviceId(gen)

\* C11 witness: a foreign device has just been linked next to the record of
\* the registered current device
C11_Witness ==
  /\ last.op = "processQRCodeData"
  /\ last.ok
  /\ ~ last.existed
  /\ Len(getTrustedDevices) = 2
  /\ CurrentMarked # {}


\* both step-up flags of a result are set
BothStepUps(r) ==
  Flag(r, "requiresCallVerification") /\ Flag(r, "requiresBiometricVerification")

\* C12: no result of verifyTransaction or verifyTransactionWithBiometric, in
\* any store state and for any amount, has both requiresCallVerification and
\* requiresBiometricVerification true.
C12_NeverBothStepUps ==
  /\ \A a \in Amounts, gen \in UuidChoices :
       /\ ~ BothStepUps(verifyTransactionResult(a, gen))
       /\ ~ BothStepUps(verifyTransactionWithBiometricResult(a, STR_img, gen))
  /\ last.op \in {"verifyTransaction", "verifyTransactionWithBiometric"} =>
       ~ BothStepUps(last.ret)

\* C12 witness: a high-value amount evaluated on a trusted device that has a
\* biometric enrolled, where both step-ups could apply
C12_Witness ==
  /\ last.op = "verifyTransaction"
  /\ last.trusted
  /\ last.amount = Amount(10000 * 100)
  /\ Flag(last.ret, "requiresBiometricVerification")


\* C13: isCurrentDeviceRegistered() returns true if and only if the
\* current_device_registered flag equals 'true' and the trusted_devices list
\* contains a record whose deviceId is the running instance's id; it is false
\* when the flag is set but the record was removed from the store externally.
C13_RegisteredIffFlagAndRecord ==
  last.op = "isDeviceRegistered" =>
    (last.ret <=>
       /\ current_device_registered = STR_true
       /\ trusted_devices.kind = "json"
       /\ \A gen \in UuidChoices :
            \E i \in 1..Len(trusted_devices.list) :
              Get(trusted_devices.list[i], "deviceId") = getDeviceId(gen))

\* C13 witness: the query made while the flag is set and the stored list,
\* edited from outside, no longer holds the record of this device
C13_Witness ==
  /\ last.op = "isDeviceRegistered"
  /\ current_device_registered = STR_true
  /\ trusted_devices.kind = "json"
  /\ RecordsOf(fp_deviceId) = {}
  /\ last.ret = FALSE

\* C14: removeTrustedDevice(id) for an id that has no record in the trust
\* store returns false and is a no-op: the stored list and the registered
\* flag are unchanged and no trust-store-changed notification is emitted.
C14_RemoveAbsentIsNoOp ==
  [][(last'.op = "removeTrustedDevice" /\ ~ last'.existed) =>
       /\ last'.ret = FALSE
       /\ last'.events = << >>
       /\ UNCHANGED << trusted_devices, current_device_registered >>]_vars

\* a phone number that was supplied and has fewer than 10 digits
ShortPhone(number) ==
  /\ number # STR_Empty
  /\ Cardinality({i \in 1..Len(number) : number[i] >= 48 /\ number[i] <= 57}) < 10

\* C15: registerCurrentDevice called with a supplied phone number of fewer
\* than 10 digits (non-digits stripped) fails with a validation error and
\* changes neither the trust store nor the registered flag.
C15_ShortPhoneRejected ==
  [][(last'.op = "registerCurrentDevice" /\ ShortPhone(last'.ret.phoneNumber)) =>
       UNCHANGED << trusted_devices, current_device_registered >>]_vars


\* C16: whenever processQRCodeData fails (expired payload, undecodable
\* string, or payload without deviceInfo) it returns null and leaves the
\* trusted_devices list and the registered flag exactly as they were,
\* emitting no trust-store-changed notification.
C16_FailedLinkChangesNothing ==
  [][(last'.op = "processQRCodeData" /\ ~ last'.ok) =>
       /\ last'.events = << >>
       /\ UNCHANGED << trusted_devices, current_device_registered >>]_vars

\* C16 witness: an expired payload refused on a device whose store holds a
\* record
C16_Witness ==
  /\ last.op = "processQRCodeData"
  /\ ~ last.ok
  /\ \E e \in Redeemed : now > e.at + 5 * 60 * 1000
  /\ Len(getTrustedDevices) > 0

\* a string that decodes to a well-formed link payload: deviceInfo with a
\* deviceId, a sessionToken, and an expiresAt that is a date
WellFormedPayload(qrData) ==
  /\ atob(qrData).ok
  /\ JSONparse(atob(qrData).val).ok
  /\ JSONparse(atob(qrData).val).hasInfo
  /\ "deviceId" \in DOMAIN JSONparse(atob(qrData).val).info
  /\ "sessionToken" \in DOMAIN JSONparse(atob(qrData).val).top
  /\ "expiresAt" \in DOMAIN JSONparse(atob(qrData).val).top
  /\ DateParse(JSONparse(atob(qrData).val).top.expiresAt) # NaNTime

\* C17: processQRCodeData rejects every input that does not decode to a
\* well-formed link payload: one that lacks expiresAt, sessionToken or
\* deviceInfo.deviceId, or carries an unparseable expiresAt, is refused and
\* nothing is added to the trust store.
C17_MalformedRejected ==
  (last.op = "processQRCodeData" /\ ~ WellFormedPayload(last.arg)) =>
    /\ ~ last.ok
    /\ last.events = << >>


\* C18: at most one verification code is outstanding at any time:
\* generateVerificationCode replaces any prior unconsumed code, so after
\* issuing c1 and then c2 (c1 # c2), verifyCode(c1) returns false.
C18_NewCodeReplacesOld ==
  /\ verification_code # Null => verification_code = codeLog.issued
  /\ (/\ last.op = "verifyCode"
      /\ codeLog.superseded # Null
      /\ codeLog.superseded # codeLog.issued
      /\ last.arg = codeLog.superseded) => last.ret = FALSE

\* C18 witness: c1 was issued and not checked, c2 replaced it, and c1 is
\* the first candidate entered afterwards
C18_Witness ==
  /\ last.op = "verifyCode"
  /\ codeLog.superseded # Null
  /\ codeLog.superseded # codeLog.issued
  /\ last.arg = codeLog.superseded
  /\ codeLog.checks = 1

\* C19: verifyCode(candidate) returns true if and only if a code is
\* outstanding (issued and not yet checked) and the candidate equals it; with
\* no outstanding code it returns false for every candidate, including
\* before any code was ever issued.
C19_TrueIffOutstandingMatch ==
  last.op = "verifyCode" =>
    (last.ret <=>
       /\ codeLog.issued # Null
       /\ codeLog.checks = 1
       /\ last.arg = codeLog.issued)

\* C19 witness: the empty candidate entered before any code was issued
C19_Witness ==
  /\ last.op = "verifyCode"
  /\ codeLog.issued = Null
  /\ last.arg = STR_Empty
  /\ last.ret = FALSE

\* the current device is trusted, its record has a biometricType other than
\* 'none' and no biometricVerified mark
TrustedWithBiometricPending ==
  \A gen \in UuidChoices :
    /\ isCurrentDeviceRegistered(gen)
    /\ Get(getCurrentDevice(gen), "biometricType") \in {STR_face, STR_fingerprint}
    /\ "biometricVerified" \notin DOMAIN getCurrentDevice(gen)

\* C20: for a trusted current device with a non-none biometricType and no
\* recorded successful biometric check, verifyTransaction returns
\* requiresBiometricVerification = true, requiresCallVerification = false and
\* riskLevel = medium for every amount, including amounts at or above the
\* high-value threshold.
C20_BiometricBeforeCall ==
  (last.op = "verifyTransaction" /\ TrustedWithBiometricPending) =>
    /\ Flag(last.ret, "requiresBiometricVerification")
    /\ last.ret.requiresCallVerification = FALSE
    /\ last.ret.riskLevel = "medium"

\* C20 witness: an amount above the threshold evaluated while the biometric
\* step is pending
C20_Witness ==
  /\ last.op = "verifyTransaction"
  /\ TrustedWithBiometricPending
  /\ ~ last.amount.nan
  /\ last.amount.cents >= 10000 * 100


\* C21: the verified field reflects device trust independent of pending
\* step-up: verifyTransaction returns verified = true whenever the current
\* device is trusted (including results that demand biometric or call
\* verification) and verified = false only when the device is untrusted.
C21_VerifiedIsTrust ==
  last.op = "verifyTransaction" => (last.ret.verified <=> last.trusted)

\* C24: a link payload is consumed at most once: after one successful
\* processQRCodeData of a payload, a second processQRCodeData of the same
\* payload string before its expiry does not succeed.
C24_ConsumedOnce ==
  [][(/\ last.op = "processQRCodeData" /\ last.ok
      /\ last'.op = "processQRCodeData" /\ last'.arg = last.arg
      /\ \E e \in qrIssued : e.payload = last.arg /\ now' < e.at + 5 * 60 * 1000)
     => ~ last'.ok]_vars

\* an amount that is not a number, or is negative
MalformedAmount(amount) == amount.nan \/ amount.cents < 0

\* C26: a transaction whose amount is malformed (NaN, as parsing an empty
\* amount field gives, or negative) is rejected by evaluation and is never
\* returned as the approved low-risk result.
C26_MalformedAmountRejected ==
  (last.op \in {"verifyTransaction", "verifyTransactionWithBiometric"}
   /\ MalformedAmount(last.amount)) =>
    ~ (last.ret.verified /\ last.ret.riskLevel = "low")

\* C27: for a trusted device with no pending biometric step and no
\* registered phone number, verifyTransaction on an amount >= 10000 still
\* reports requiresCallVerification = true with verified = true and
\* riskLevel = medium; the missing phone number never demotes the result to
\* blocked.
C27_CallRequiredWithoutPhone ==
  (/\ last.op = "verifyTransaction"
   /\ TrustedWithoutBiometric
   /\ \A gen \in UuidChoices : ~ Truthy(Get(getCurrentDevice(gen), "phoneNumber"))
   /\ ~ last.amount.nan
   /\ last.amount.cents >= 10000 * 100) =>
    /\ last.ret.requiresCallVerification = TRUE
    /\ last.ret.verified = TRUE
    /\ last.ret.riskLevel = "medium"

\* C27 witness: a high-value amount evaluated on a trusted device that was
\* registered without a phone number
C27_Witness ==
  /\ last.op = "verifyTransaction"
  /\ TrustedWithoutBiometric
  /\ \A gen \in UuidChoices : Get(getCurrentDevice(gen), "phoneNumber") = STR_Empty
  /\ last.amount = Amount(10000 * 100)
  /\ last.ret.riskLevel = "medium"


\* C25: fail closed: when the persisted trusted_devices value cannot be
\* parsed (or is absent) while the registered flag is set, verifyTransaction
\* returns the blocked result (verified = false, riskLevel = high) for every
\* amount and never an approved or step-up result.
C25_FailClosed ==
  (/\ last.op = "verifyTransaction"
   /\ current_device_registered = STR_true
   /\ trusted_devices.kind \in {"absent", "corrupt"}) =>
    /\ last.ret.verified = FALSE
    /\ last.ret.riskLevel = "high"
    /\ ~ Flag(last.ret, "requiresCallVerification")
    /\ ~ Flag(last.ret, "requiresBiometricVerification")

\* C25 witness: a small amount evaluated while the flag is set and the
\* stored value is not JSON
C25_Witness ==
  /\ last.op = "verifyTransaction"
  /\ current_device_registered = STR_true
  /\ trusted_devices.kind = "corrupt"
  /\ last.amount = Amount(0)

\* C28: verifyTransaction and verifyTransactionWithBiometric are read-only
\* with respect to trust state: they leave the trusted_devices list, the
\* registered flag and the outstanding verification code unchanged and emit
\* no trust-store-changed notification.
C28_EvaluationReadOnly ==
  [][last'.op \in {"verifyTransaction", "verifyTransactionWithBiometric"} =>
       /\ UNCHANGED << trusted_devices, current_device_registered,
                       verification_code >>
       /\ "events" \notin DOMAIN last']_vars

\* C28 witness: an evaluation on a trusted device while a verification code
\* is outstanding
C28_Witness ==
  /\ last.op = "verifyTransaction"
  /\ last.trusted
  /\ verification_code # Null

\* the last call was a register, link, biometric enrolment or removal that
\* succeeded
StoreOperationSucceeded ==
  \/ last.op \in {"registerCurrentDevice", "removeTrustedDevice"}
  \/ (last.op = "registerBiometric" /\ last.ret = TRUE)
  \/ (last.op = "processQRCodeData" /\ last.ok)

\* C29: every successful registerCurrentDevice, linkDeviceFromQR,
\* registerBiometric and removeTrustedDevice emits one trustedDevicesUpdated
\* notification, dispatched when the new list is already in the store.
C29_NotifiedAfterWrite ==
  StoreOperationSucceeded => last.events = << trusted_devices >>

\* C29 witness: a biometric enrolment that succeeded
C29_Witness ==
  /\ last.op = "registerBiometric"
  /\ last.ret = TRUE
  /\ Len(last.events) = 1

\* C30: getDeviceId is idempotent: once an identifier has been generated and
\* persisted, every later call returns it, in every reachable state,
\* including after the current device was removed and re-registered.
C30_DeviceIdStable ==
  [][trusted_device_id # Null =>
       /\ trusted_device_id' = trusted_device_id
       /\ fp_deviceId' \in {Null, trusted_device_id}
       /\ (last'.op = "registerCurrentDevice" =>
             last'.ret.deviceId = trusted_device_id)]_vars

\* C30 witness: the current device, registered before, has just been
\* removed and the identifier in use is still the persisted one
C30_Witness ==
  /\ last.op = "removeTrustedDevice"
  /\ last.registered
  /\ last.arg = trusted_device_id
  /\ fp_deviceId = trusted_device_id

\* C22: after the biometric check of a trusted device with an enrolled
\* biometric has succeeded, the resubmitted transaction leaves the
\* biometric-required state: its result no longer carries
\* requiresBiometricVerification.
C22_BiometricClears ==
  [][(/\ sim.showBiometricVerification
      /\ sim'.isBiometricVerified
      /\ last'.op = "verifyTransaction"
      /\ last'.trusted)
       => ~ Flag(sim'.verificationResult, "requiresBiometricVerification")]_vars

\* C23: in the step-up flow isCallVerified becomes true only on a verifyCode
\* call that returned true for the code issued after the pending transaction,
\* which required call verification, was submitted; a mismatching code leaves
\* the flow call-required; submitting a transaction resets isCallVerified.
C23_ApprovedOnlyByFreshCode ==
  [][/\ (sim'.isCallVerified /\ ~ sim.isCallVerified) =>
          /\ last'.op = "verifyCode"
          /\ last'.ret = TRUE
          /\ last'.arg = codeLog.issued
          /\ sim.codeSince
          /\ Flag(sim.verificationResult, "requiresCallVerification")
          /\ sim'.verificationResult = sim.verificationResult
          /\ sim'.currentTransaction = sim.currentTransaction
     /\ (last'.op = "verifyCode" /\ last'.ret = FALSE) =>
          /\ ~ sim'.isCallVerified
          /\ Flag(sim'.verificationResult, "requiresCallVerification")
     /\ (last'.op \in {"simulateTransaction", "verifyTransaction"}) =>
          ~ sim'.isCallVerified]_vars

\* C23 witness: a call-required transaction approved by the matching code
C23_Witness ==
  /\ sim.isCallVerified
  /\ last.op = "verifyCode"
  /\ last.ret = TRUE
  /\ Flag(sim.verificationResult, "requiresCallVerification")

\* lastVerified of the first record of devices with this id, undefined
\* without one
LastVerifiedIn(devices, id) ==
  IF indicesOf(devices, id) = {} THEN Undefined
  ELSE Get(findDevice(devices, id), "lastVerified")

LastVerifiedOf(id) == LastVerifiedIn(getTrustedDevices, id)

\* C32: every write of a record through addTrustedDevice (register, link,
\* biometric enrolment), creating or merging, leaves the record's
\* lastVerified at the time of the write, and the lastVerified of a record
\* that stays in the list never decreases.
C32_LastVerifiedRefreshed ==
  [][/\ (last'.op = "registerCurrentDevice") =>
          LastVerifiedIn(getTrustedDevices', last'.ret.deviceId) = toISOString(now')
     /\ (last'.op = "processQRCodeData" /\ last'.ok) =>
          LastVerifiedIn(getTrustedDevices', last'.ret.deviceId) = toISOString(now')
     /\ (last'.op = "registerBiometric" /\ last'.ret = TRUE) =>
          LastVerifiedIn(getTrustedDevices', fp_deviceId') = toISOString(now')
     /\ \A id \in DeviceIds :
          (/\ LastVerifiedIn(getTrustedDevices, id) # Undefined
           /\ LastVerifiedIn(getTrustedDevices', id) # Undefined) =>
            ~ DateLess(DateParse(LastVerifiedIn(getTrustedDevices', id)),
                       DateParse(LastVerifiedIn(getTrustedDevices, id)))
    ]_vars

\* C32 witness: a biometric enrolment merged into a record created earlier
C32_Witness ==
  /\ last.op = "registerBiometric"
  /\ last.ret = TRUE
  /\ LastVerifiedOf(fp_deviceId) = toISOString(now)
  /\ findDevice(getTrustedDevices, fp_deviceId).timestamp # toISOString(now)

\* C33: when the biometric check fails for a trusted device,
\* verifyTransactionWithBiometric returns neither an approved nor a
\* call-verification result, gives the biometric failure as the reason, and
\* keeps the transaction in the biometric-required step instead of deciding it.
C33_FailedBiometricReprompts ==
  (/\ last.op = "verifyTransactionWithBiometric"
   /\ last.trusted
   /\ ~ verifyBiometricResult(STR_img, fp_deviceId))
    => /\ ~ last.ret.verified
       /\ ~ last.ret.requiresCallVerification
       /\ last.ret.reason = "Biometric verification failed"
       /\ Flag(last.ret, "requiresBiometricVerification")
       /\ last.ret.recommendation # "Block transaction"

\* C35: whenever isCurrentDeviceRegistered() is true, the record stored for
\* the current device id has isCurrentDevice = true.
C35_TrustedCurrentIsMarked ==
  \A gen \in UuidChoices :
    isCurrentDeviceRegistered(gen) => getCurrentDevice(gen).isCurrentDevice = TRUE

\* the biometric enrolment stored for id: type and data, null without record
EnrolmentOf(id) ==
  IF indicesOf(getTrustedDevices, id) = {} THEN Null
  ELSE << Get(findDevice(getTrustedDevices, id), "biometricType"),
          Get(findDevice(getTrustedDevices, id), "biometricData") >>

\* C36: once a biometric is enrolled for the current device, registering the
\* device again or redeeming a link payload leaves biometricType and
\* biometricData of its record as they were.
C36_EnrolmentSurvives ==
  [][(/\ last'.op \in {"registerCurrentDevice", "processQRCodeData"}
      /\ fp_deviceId # Null
      /\ EnrolmentOf(fp_deviceId) # Null
      /\ EnrolmentOf(fp_deviceId)[1] \notin {Undefined, STR_none})
       => EnrolmentOf(fp_deviceId)' = EnrolmentOf(fp_deviceId)]_vars

\* C38: registerBiometric called while the current device is not trusted
\* returns false, leaves the trust store unchanged and emits no notification.
C38_BiometricOnlyWhenTrusted ==
  [][(/\ last'.op = "registerBiometric"
      /\ fp_deviceId # Null
      /\ ~ isCurrentDeviceRegistered(fp_deviceId))
       => /\ last'.ret = FALSE
          /\ UNCHANGED trusted_devices
          /\ last'.events = << >>]_vars

\* the deviceIds of a list, in list order
IdsOf(devices) == [i \in 1..Len(devices) |-> Get(devices[i], "deviceId")]

\* x occurs in the sequence
Occurs(seq, x) == \E i \in 1..Len(seq) : seq[i] = x

\* C31: getTrustedDevices keeps insertion order: registering or linking a
\* new deviceId appends it, an update of an existing deviceId keeps the
\* record's position, and a removal keeps the order of the other records.
C31_InsertionOrder ==
  [][/\ (\/ last'.op = "registerCurrentDevice"
         \/ (last'.op = "processQRCodeData" /\ last'.ok)) =>
          IdsOf(getTrustedDevices') =
            IF Occurs(IdsOf(getTrustedDevices), last'.ret.deviceId)
            THEN IdsOf(getTrustedDevices)
            ELSE Append(IdsOf(getTrustedDevices), last'.ret.deviceId)
     /\ (last'.op = "registerBiometric") =>
          IdsOf(getTrustedDevices') = IdsOf(getTrustedDevices)
     /\ (last'.op = "removeTrustedDevice") =>
          IdsOf(getTrustedDevices') =
            SelectSeq(IdsOf(getTrustedDevices), LAMBDA x : x # last'.arg)
    ]_vars

\* C31 witness: three records, the first of which a link has just updated
C31_Witness ==
  /\ last.op = "processQRCodeData"
  /\ last.ok
  /\ last.existed
  /\ Len(getTrustedDevices) = 3
  /\ getTrustedDevices[1].deviceId = last.ret.deviceId

\* every record of before with another deviceId is at the same index of
\* after with the same content, and after has no new record but for id
SamePlaces(before, after, id) ==
  /\ Len(after) >= Len(before)
  /\ \A i \in 1..Len(before) :
       Get(before[i], "deviceId") # id => after[i] = before[i]
  /\ \A i \in (Len(before) + 1)..Len(after) : Get(after[i], "deviceId") = id

BothDone == \A i \in Instances : inflight[i].pc = "done"

\* C34: when two redemptions of the same link payload have run against the
\* shared store, with their reads and writes of trusted_devices interleaved
\* in any order, the list holds exactly one record for the payload's deviceId.
C34_LinkedOnce ==
  \A i, j \in Instances :
    (/\ i # j
     /\ BothDone
     /\ inflight[i].arg = inflight[j].arg)
      => Cardinality(indicesOf(getTrustedDevices, inflight[i].device.deviceId)) = 1

\* C34 witness: both redemptions of one payload are complete and one of them
\* wrote after the other had changed the list it read
C34_Witness ==
  /\ BothDone
  /\ inflight[1].arg = inflight[2].arg
  /\ \E i \in Instances : inflight[i].raced

\* C39: when two addTrustedDevice executions for different deviceIds have
\* run against the shared store, with their reads and writes interleaved,
\* the list holds a record for each of the two deviceIds.
C39_NoLostUpdate ==
  \A i, j \in Instances :
    (/\ i # j
     /\ BothDone
     /\ inflight[i].device.deviceId # inflight[j].device.deviceId)
      => /\ indicesOf(getTrustedDevices, inflight[i].device.deviceId) # {}
         /\ indicesOf(getTrustedDevices, inflight[j].device.deviceId) # {}

====
